---- MODULE Spec2Model ----
(***************************************************************************)
(* SheetEase (ExcelExportTool): a model of the worksheet export pipeline.  *)
(*                                                                         *)
(*   Spec      one WorksheetData object: construction (key strategy        *)
(*             detection and key pre-scans), generate_json row by row,     *)
(*             and the ReferenceChecker queue with run_checks.             *)
(*   SpecEnum  the EnumRegistry singleton: register / get / reset.         *)
(*   SpecBatch batch_excel_to_json: enum collection, data phase,           *)
(*             reference phase and cleanup.                                *)
(*                                                                         *)
(* Python values are modelled as tagged records (PyVal) so that values of  *)
(* different Python types can live in one collection; Python's None for an *)
(* omitted string (a reference field, a search directory) is "".           *)
(***************************************************************************)
EXTENDS Integers, Sequences, FiniteSets, TLC

VARIABLES
    JSON_ID_FIRST,  \* naming_config.JSON_ID_FIRST: id written first or last
    ws,             \* the WorksheetData object (self.*)
    gj,             \* the running / last generate_json call (its locals)
    checker,        \* ws._reference_checker (ReferenceChecker fields)
    rcf,            \* the running / last run_checks call (its locals)
    disk,           \* JSON files of the output folders
    log,            \* log_warn / log_error / log_info lines, in order
    registry,       \* the EnumRegistry singleton and the last call's result
    batch,          \* batch_excel_to_json: its inputs, locals and position
    call,           \* the last call of a pure function: its arguments and result
    assets          \* asset_validator's module globals, and the process around them

sheetVars == <<JSON_ID_FIRST, ws, gj, checker, rcf, disk, log>>
vars == <<JSON_ID_FIRST, ws, gj, checker, rcf, disk, log, registry, batch, call, assets>>

-----------------------------------------------------------------------------
(* Bounds of the model *)

\* data rows of a sheet in the key scenarios
MaxRows == 2
\* data rows of a sheet in the reference scenarios
MaxRefRows == 1

-----------------------------------------------------------------------------
(* Python values *)

NoneV == [t |-> "none", n |-> 0, s |-> "", l |-> <<>>]
IntV(i) == [t |-> "int", n |-> i, s |-> "", l |-> <<>>]
BoolV(b) == [t |-> "bool", n |-> IF b THEN 1 ELSE 0, s |-> "", l |-> <<>>]
StrV(x) == [t |-> "string", n |-> 0, s |-> x, l |-> <<>>]
ListV(xs) == [t |-> "list", n |-> 0, s |-> "", l |-> xs]
DictV(es) == [t |-> "dict", n |-> 0, s |-> "", l |-> es]

IsNumeric(v) == v.t \in {"int", "bool"}

\* Python ==, as used by `in` on sets and lists: numbers (bool included)
\* compare by value, strings by content, None only equals None.
PyEq(a, b) ==
    IF IsNumeric(a) /\ IsNumeric(b) THEN a.n = b.n
    ELSE IF a.t = "string" /\ b.t = "string" THEN a.s = b.s
    ELSE IF a.t = "none" /\ b.t = "none" THEN TRUE
    ELSE a.t = b.t /\ a = b

PyIn(v, S) == \E x \in S : PyEq(v, x)

\* Python dicts keep insertion order: a dict is a sequence of [k, v] entries
DictHas(d, k) == \E i \in 1..Len(d) : d[i].k = k
DictGet(d, k) == d[CHOOSE i \in 1..Len(d) : d[i].k = k].v
\* d[k] = v: an existing key keeps its place, a new key goes last
DictSet(d, k, v) ==
    IF DictHas(d, k)
    THEN [i \in 1..Len(d) |-> IF d[i].k = k THEN [k |-> k, v |-> v] ELSE d[i]]
    ELSE Append(d, [k |-> k, v |-> v])
DictKeys(d) == {d[i].k : i \in 1..Len(d)}

\* The decimal strings the scenarios use, parsed as Python's int(str) does
\* (after stripping); every other string raises ValueError.
IntLiterals == {"0", "1", "2", "5", "6"}

ParseInt(x) ==
    CASE x = "0" -> 0
      [] x = "1" -> 1
      [] x = "2" -> 2
      [] x = "5" -> 5
      [] x = "6" -> 6
      [] OTHER -> 0

\* Python int(value): [ok, v]; not ok is the exception int() raises
PyInt(v) ==
    CASE v.t = "int" -> [ok |-> TRUE, v |-> v.n]
      [] v.t = "bool" -> [ok |-> TRUE, v |-> v.n]
      [] v.t = "string" -> [ok |-> v.s \in IntLiterals, v |-> ParseInt(v.s)]
      [] OTHER -> [ok |-> FALSE, v |-> 0]

\* Python str(value)
PyStr(v) ==
    CASE v.t = "int" -> ToString(v.n)
      [] v.t = "bool" -> (IF v.n = 1 THEN "True" ELSE "False")
      [] v.t = "string" -> v.s
      [] OTHER -> "None"

\* str.split(",") followed by strip() of each part, for the strings the
\* scenarios use
SplitComma(x) ==
    CASE x = "5,6" -> <<"5", "6">>
      [] x = "5,x" -> <<"5", "x">>
      [] x = "" -> <<"">>
      [] OTHER -> <<x>>

\* the `key:value` lines of a dict cell (str.splitlines, then split(":", 1)),
\* for the strings the scenarios use; a line without a colon gives nothing
DictLines(x) ==
    CASE x = "1:2" -> << <<"1", "2">> >>
      [] OTHER -> <<>>

-----------------------------------------------------------------------------
(* Type annotations (utils/type_utils.py) for the type strings of the model *)

TypeStrings == {"int", "string", "str", "list(int)", "dict(int,int)"}

\* parse_type_annotation: (kind, base); base "" is Python's None
parse_type_annotation(type_str) ==
    CASE type_str = "int" -> [kind |-> "scalar", base |-> "int"]
      [] type_str \in {"string", "str"} -> [kind |-> "scalar", base |-> "string"]
      [] type_str = "list(int)" -> [kind |-> "list", base |-> "int"]
      [] type_str = "dict(int,int)" -> [kind |-> "dict", base |-> ""]
      [] OTHER -> [kind |-> "scalar", base |-> type_str]

\* convert_type_to_csharp: list -> List, dict -> Dictionary, ( ) -> < >
convert_type_to_csharp(type_str) ==
    CASE type_str = "list(int)" -> "List<int>"
      [] type_str = "dict(int,int)" -> "Dictionary<int,int>"
      [] OTHER -> type_str

-----------------------------------------------------------------------------
(* Value conversion (parsing/data_processing.py), the lenient policy.      *)
(* A result is [ok, v]; not ok is the exception the conversion raises.     *)

ConvOk(v) == [ok |-> TRUE, v |-> v]
ConvFail == [ok |-> FALSE, v |-> NoneV]

\* _convert_primitive, with PRIMITIVE_TYPE_MAPPING's int and str converters
_convert_primitive(type_str, value) ==
    IF value.t = "none"
    THEN ConvOk(IF type_str \in {"str", "string"} THEN StrV("") ELSE IntV(0))
    ELSE IF type_str = "int"
         THEN (IF PyInt(value).ok THEN ConvOk(IntV(PyInt(value).v)) ELSE ConvFail)
         ELSE ConvOk(StrV(PyStr(value)))

\* _convert_with_check for an element type of the model (int)
_convert_with_check(type_str, value) ==
    IF PyInt(value).ok THEN ConvOk(IntV(PyInt(value).v)) ELSE ConvFail

RECURSIVE ConvertParts(_, _)
\* the loop of _convert_list over the comma-separated parts: empty parts are
\* skipped, the first part that does not convert raises
ConvertParts(parts, acc) ==
    IF parts = <<>> THEN ConvOk(ListV(acc))
    ELSE IF Head(parts) = "" THEN ConvertParts(Tail(parts), acc)
    ELSE LET r == _convert_with_check("int", StrV(Head(parts)))
         IN IF r.ok THEN ConvertParts(Tail(parts), Append(acc, r.v)) ELSE ConvFail

\* _convert_list: None -> [], a string is split on commas, any other value
\* becomes a one-element list
_convert_list(type_str, value) ==
    IF value.t = "none" THEN ConvOk(ListV(<<>>))
    ELSE IF value.t = "string" THEN ConvertParts(SplitComma(value.s), <<>>)
    ELSE LET r == _convert_with_check("int", value)
         IN IF r.ok THEN ConvOk(ListV(<<r.v>>)) ELSE ConvFail

RECURSIVE ConvertLines(_, _)
\* the loop of _convert_dict over the `key:value` lines
ConvertLines(lines, acc) ==
    IF lines = <<>> THEN ConvOk(DictV(acc))
    ELSE LET k == PyInt(StrV(Head(lines)[1]))
             v == _convert_with_check("int", StrV(Head(lines)[2]))
         IN IF k.ok /\ v.ok
            THEN ConvertLines(Tail(lines), Append(acc, [k |-> IntV(k.v), v |-> v.v]))
            ELSE ConvFail

\* _convert_dict: None -> {}, else one entry per line holding a colon
_convert_dict(type_str, value) ==
    IF value.t = "none" THEN ConvOk(DictV(<<>>))
    ELSE ConvertLines(DictLines(PyStr(value)), <<>>)

\* convert_to_type: the dispatch on the type string
convert_to_type(type_str, value) ==
    IF type_str \in {"int", "str", "string"} THEN _convert_primitive(type_str, value)
    ELSE IF type_str = "dict(int,int)" THEN _convert_dict(type_str, value)
    ELSE IF type_str = "list(int)" THEN _convert_list(type_str, value)
    ELSE ConvFail

-----------------------------------------------------------------------------
(* Field names (parsing/field_parser.py).  A raw field name is the record  *)
(* of what the prefix regexes match: prefix "" (none), "key1", "key2" or   *)
(* "ref" ([Sheet/Field]Name, field "" when omitted), and the name proper.  *)

Plain(name) == [prefix |-> "", name |-> name, sheet |-> "", field |-> ""]
Key1(name) == [prefix |-> "key1", name |-> name, sheet |-> "", field |-> ""]
Key2(name) == [prefix |-> "key2", name |-> name, sheet |-> "", field |-> ""]
Ref(sheet, field, name) == [prefix |-> "ref", name |-> name, sheet |-> sheet, field |-> field]

\* extract_actual_field_name: the name with its annotation prefix removed
extract_actual_field_name(raw) == raw.name

\* parse_key_prefix: ("key1"|"key2", real name), or None (ok = FALSE)
parse_key_prefix(raw) ==
    [ok |-> raw.prefix \in {"key1", "key2"}, key |-> raw.prefix, name |-> raw.name]

\* parse_ref_prefix: (sheet, field or None), or None (ok = FALSE)
parse_ref_prefix(raw) ==
    [ok |-> raw.prefix = "ref", sheet |-> raw.sheet, field |-> raw.field]

\* str.lower() on the field names of the model
Lower(x) == IF x = "Id" THEN "id" ELSE x

\* `"int" in data_type.strip().lower()` for the type strings of the model
ContainsInt(type_str) == type_str \in {"int", "list(int)", "dict(int,int)"}

\* naming_utils.is_valid_csharp_identifier (letters, digits, underscore, not
\* starting with a digit), on the names of the model
is_valid_csharp_identifier(x) == x \notin {"", "1x", "a b", "5"}

-----------------------------------------------------------------------------
(* Errors: the exception a call raises.  type "none" is no exception.      *)

Err(type, key, row_a, row_b, field) ==
    [type |-> type, key |-> key, row_a |-> row_a, row_b |-> row_b, field |-> field]
NoError == Err("none", 0, 0, 0, "")

\* DuplicatePrimaryKeyError(key, row_a, row_b): "主键重复: key (行 a 与 行 b)"
DuplicatePrimaryKeyError(key, row_a, row_b) ==
    Err("DuplicatePrimaryKeyError", key, row_a, row_b, "")
\* CompositeKeyOverflowError(combined)
CompositeKeyOverflowError(combined) == Err("CompositeKeyOverflowError", combined, 0, 0, "")
\* HeaderFormatError(sheet, reason): key is the header row (1..6) it names
HeaderFormatError(what, i) == Err("HeaderFormatError", i, 0, 0, what)
\* the RuntimeError messages of worksheet_data.py and worksheet_validator.py;
\* `field` holds the kind of message or the field it names
RuntimeError(what, row) == Err("RuntimeError", 0, row, row, what)
InvalidEnumNameError(row) == Err("InvalidEnumNameError", 0, row, row, "")
ConversionError(field, row) == Err("ValueError", 0, row, row, field)

-----------------------------------------------------------------------------
(* WorksheetData (core/worksheet_data.py) *)

\* composite key parameters
MAX_KEY2 == 46340
\* a multiplier one short of MAX_KEY2, under which (0, MAX_KEY2 - 1) and (1, 0)
\* combine to the same key
MULTIPLIER_short == MAX_KEY2 - 1
MULTIPLIER == MAX_KEY2
\* a limit below the largest combined key of in-range parts
INT32_MAX_low == MAX_KEY2 * (MAX_KEY2 - 1)
\* the limit of a signed 16-bit integer
INT32_MAX_16_bits == 2^15 - 1
\* 2^31 - 1: `row_key >= 2**31` is `row_key > INT32_MAX`
INT32_MAX == 2147483647
\* data starts at Excel row 7: excel_row = 7 + row_idx
FIRST_DATA_ROW == 7

\* column indices 1..N of a sheet: field_names[i] belongs to cell row[i-1]
Cols(w) == 1..Len(w.field_names)

_actual_field_name(w, i) == extract_actual_field_name(w.field_names[i])

\* _iter_effective_field_indices: the columns i > 0 not labelled ignore
EffectiveCols(w) == {i \in Cols(w) : w.data_labels[i] # "ignore"}

\* _get_properties_dict: actual field name -> C# type; a later column of the
\* same actual name overwrites an earlier one
PropertyType(w, name) ==
    LET is == {i \in EffectiveCols(w) : _actual_field_name(w, i) = name}
        last == CHOOSE i \in is : \A j \in is : j <= i
    IN convert_type_to_csharp(w.data_types[last])

\* _need_generate_keys: the first property's C# type is "string"
_need_generate_keys(w) ==
    /\ EffectiveCols(w) # {}
    /\ LET first == CHOOSE i \in EffectiveCols(w) : \A j \in EffectiveCols(w) : i <= j
       IN PropertyType(w, _actual_field_name(w, first)) = "string"

\* _detect_composite_keys_with_prefixes_in_first_two_columns
DetectCompositeKeys(w) ==
    /\ Len(w.field_names) >= 2
    /\ LET k1 == parse_key_prefix(w.field_names[1])
           k2 == parse_key_prefix(w.field_names[2])
       IN /\ k1.ok /\ k2.ok /\ k1.key = "key1" /\ k2.key = "key2"
          /\ ContainsInt(w.data_types[1]) /\ ContainsInt(w.data_types[2])
          /\ k1.name # "" /\ k2.name # ""

RECURSIVE EnumKeyScan(_, _)
\* check_duplicate_enum_keys: every key cell is validated in row order (the
\* first invalid name raises, naming its row); then any name seen in two
\* rows raises (with row -1).
EnumKeyScan(rows, idx) ==
    IF idx > Len(rows)
    THEN (IF \E i, j \in 1..Len(rows) : i < j /\ rows[i][1] = rows[j][1]
          THEN InvalidEnumNameError(0 - 1)
          ELSE NoError)
    ELSE IF rows[idx][1].t # "string" \/ ~is_valid_csharp_identifier(rows[idx][1].s)
    THEN InvalidEnumNameError(FIRST_DATA_ROW + idx - 1)
    ELSE EnumKeyScan(rows, idx + 1)

check_duplicate_enum_keys(rows) == EnumKeyScan(rows, 1)

RECURSIVE NameRows(_, _, _)
\* name_rows of check_duplicate_enum_keys: name -> the Excel rows holding it,
\* names in the order of their first row
NameRows(rows, idx, acc) ==
    IF idx > Len(rows) THEN acc
    ELSE LET val == rows[idx][1].s
             excel_row == FIRST_DATA_ROW + idx - 1
             sofar == IF DictHas(acc, val) THEN DictGet(acc, val) ELSE <<>>
         IN NameRows(rows, idx + 1, DictSet(acc, val, Append(sofar, excel_row)))

\* dup of check_duplicate_enum_keys, the content of the duplicate message:
\* the names of name_rows with more than one row, each with its rows
DuplicateEnumKeyLines(rows) ==
    SelectSeq(NameRows(rows, 1, <<>>), LAMBDA e : Len(e.v) > 1)

RECURSIVE CompositeKeyScan(_, _, _)
\* check_duplicate_composite_keys: per row, None or non-integer key cells
\* raise RuntimeError, and a combined key already seen raises
\* DuplicatePrimaryKeyError(combined, first row, this row)
CompositeKeyScan(rows, idx, seen) ==
    IF idx > Len(rows) THEN NoError
    ELSE LET row == rows[idx]
             excel_row == FIRST_DATA_ROW + idx - 1
             i1 == PyInt(row[1])
             i2 == PyInt(row[2])
             combined == i1.v * MULTIPLIER + i2.v
         IN IF Len(row) < 2 THEN CompositeKeyScan(rows, idx + 1, seen)
            ELSE IF row[1].t = "none" \/ row[2].t = "none"
            THEN RuntimeError("key1/key2 empty", excel_row)
            ELSE IF ~i1.ok \/ ~i2.ok
            THEN RuntimeError("key1/key2 not int", excel_row)
            ELSE IF DictHas(seen, combined)
            THEN DuplicatePrimaryKeyError(combined, DictGet(seen, combined), excel_row)
            ELSE CompositeKeyScan(rows, idx + 1, DictSet(seen, combined, excel_row))

check_duplicate_composite_keys(rows) == CompositeKeyScan(rows, 1, <<>>)

\* the loop of __init__ that fills _ref_specs: col -> (sheet, field)
RefSpecCols(w) ==
    {i \in Cols(w) : w.data_labels[i] # "ignore" /\ parse_ref_prefix(w.field_names[i]).ok}

\* InvalidFieldNameError(field, col_index, sheet): key is the column index
InvalidFieldNameError(field, col_index) == Err("InvalidFieldNameError", col_index, 0, 0, field)

\* a field-name check that tests the raw name only where it has no annotation
InvalidFieldCols_unannotated_only(w) ==
    {i \in EffectiveCols(w) : /\ w.field_names[i].prefix = ""
                              /\ ~is_valid_csharp_identifier(_actual_field_name(w, i))}
\* the field-name check of __init__: the first non-ignored column whose
\* actual name is no identifier raises InvalidFieldNameError(name, index)
InvalidFieldCols(w) ==
    {i \in EffectiveCols(w) : ~is_valid_csharp_identifier(_actual_field_name(w, i))}

\* check_interface_field_types, the hard check: a property named id must be
\* int and a property named name must be string
InterfaceTypeError(w) ==
    \E i \in EffectiveCols(w) :
        LET nm == _actual_field_name(w, i)
        IN \/ nm = "id" /\ Lower(PropertyType(w, nm)) # "int"
           \/ nm = "name" /\ Lower(PropertyType(w, nm)) # "string"

\* cell_values[1..6] as read_cell_values returned them: remarks, headers,
\* data_types, data_labels, field_names, default_values
cell_values(w) ==
    <<w.remarks, w.headers, w.data_types, w.data_labels, w.field_names, w.default_values>>

\* the strict header check of __init__: the first of rows 1..6 that is empty
\* raises, then the first whose length is not that of the field-name row
HeaderCheck(w) ==
    LET rows == cell_values(w)
        empty == {i \in 1..6 : Len(rows[i]) = 0}
        off == {i \in 1..6 : Len(rows[i]) # Len(w.field_names)}
    IN IF empty # {}
       THEN HeaderFormatError("missing or empty", CHOOSE i \in empty : \A j \in empty : i <= j)
       ELSE IF off # {}
       THEN HeaderFormatError("length mismatch", CHOOSE i \in off : \A j \in off : i <= j)
       ELSE NoError

\* _align_list(lst, target, fill): pads with None or truncates to target
_align_list(lst, target) ==
    [i \in 1..target |-> IF i <= Len(lst) THEN lst[i] ELSE NoneV]

\* the warnings of the _align_list calls of __init__, in the order of the
\* calls: one per row (1, 2, 3, 4, 6) whose length is not the target
AlignWarnings(w) ==
    LET rows == cell_values(w)
        warn(i) == IF Len(rows[i]) = Len(w.field_names) THEN <<>>
                   ELSE <<[level |-> "warn",
                           kind |-> IF Len(rows[i]) < Len(w.field_names)
                                    THEN "header_padded" ELSE "header_truncated",
                           row |-> i, field |-> "", sheet |-> w.name, item |-> 0]>>
    IN warn(1) \o warn(2) \o warn(3) \o warn(4) \o warn(6)

\* WorksheetData.__init__: the exception it raises, in the order of the code
ConstructError(w) ==
    LET ngk == _need_generate_keys(w)
        ck == DetectCompositeKeys(w)
        e1 == IF ngk THEN check_duplicate_enum_keys(w.row_data) ELSE NoError
        e2 == IF ck THEN check_duplicate_composite_keys(w.row_data) ELSE NoError
    IN IF HeaderCheck(w).type # "none" THEN HeaderCheck(w)
       ELSE IF e1.type # "none" THEN e1
       ELSE IF e2.type # "none" THEN e2
       ELSE IF InvalidFieldCols(w) # {}
       THEN LET i == CHOOSE i \in InvalidFieldCols(w) : \A j \in InvalidFieldCols(w) : i <= j
            IN InvalidFieldNameError(_actual_field_name(w, i), i)
       ELSE IF InterfaceTypeError(w) THEN RuntimeError("interface field type", 0)
       ELSE NoError

\* a fresh ReferenceChecker
NewChecker == [_pending_ref_checks |-> <<>>, _ref_dict_warned_cols |-> {},
               _reference_checks_done |-> FALSE]

IdleGj == [pc |-> "idle", output_folder |-> "", row_idx |-> 0, serial_key |-> 0,
           used_keys |-> <<>>, data |-> <<>>, error |-> NoError]
IdleRcf == [pc |-> "idle", search_dirs |-> <<>>, idx |-> 0, cache |-> <<>>,
            json_obj_cache |-> <<>>, json_missing |-> {}, any_error |-> FALSE,
            skipped |-> FALSE, logged |-> <<>>]

\* WorksheetData(worksheet)
Construct ==
    /\ ws.state = "new"
    /\ LET e == ConstructError(ws)
           n_fields == Len(ws.field_names)
       IN IF e.type = "HeaderFormatError"
          THEN /\ ws' = [ws EXCEPT !.state = "failed", !.error = e]
               /\ UNCHANGED log
          ELSE /\ ws' = [ws EXCEPT
                           !.state = IF e.type = "none" THEN "ready" ELSE "failed",
                           !.remarks = _align_list(@, n_fields),
                           !.headers = _align_list(@, n_fields),
                           !.data_types = _align_list(@, n_fields),
                           !.data_labels = _align_list(@, n_fields),
                           !.default_values = _align_list(@, n_fields),
                           !.need_generate_keys = _need_generate_keys(ws),
                           !.composite_keys = DetectCompositeKeys(ws),
                           !._ref_specs = RefSpecCols(ws),
                           !.error = e]
               /\ log' = log \o AlignWarnings(ws)
    /\ checker' = NewChecker
    /\ UNCHANGED <<JSON_ID_FIRST, gj, rcf, disk, registry, batch, call, assets>>

-----------------------------------------------------------------------------
(* generate_json (core/worksheet_data.py) *)

\* a logged line: its level, what it reports, and the row, field and sheet it
\* names; item is the position in the queue of the check that logged it
\* (0: not logged by a check)
LogLine(level, kind, row, field, sheet, item) ==
    [level |-> level, kind |-> kind, row |-> row, field |-> field, sheet |-> sheet,
     item |-> item]

\* a key test that never finds the key, so a repeated key passes
row_key_never_in_used_keys(used_keys, row_key) == FALSE
\* `row_key in used_keys`
row_key_in_used_keys(used_keys, row_key) == DictHas(used_keys, row_key)

\* the primary key of a data row: [error, row_key, warn]; warn says that the
\* "first column is not named id" warning is due
RowKey(w, frame, row, excel_row) ==
    IF w.need_generate_keys
    THEN [error |-> NoError, row_key |-> frame.serial_key, warn |-> FALSE]
    ELSE IF w.composite_keys
    THEN LET k1 == PyInt(row[1])
             k2 == PyInt(row[2])
         IN IF ~k1.ok \/ ~k2.ok
            THEN [error |-> RuntimeError("composite key not int", excel_row),
                  row_key |-> 0, warn |-> FALSE]
            ELSE IF ~(0 <= k1.v /\ k1.v < MAX_KEY2 /\ 0 <= k2.v /\ k2.v < MAX_KEY2)
            THEN [error |-> RuntimeError("composite key out of range", excel_row),
                  row_key |-> 0, warn |-> FALSE]
            ELSE IF k1.v * MULTIPLIER + k2.v > INT32_MAX
            THEN [error |-> CompositeKeyOverflowError(k1.v * MULTIPLIER + k2.v),
                  row_key |-> 0, warn |-> FALSE]
            ELSE [error |-> NoError, row_key |-> k1.v * MULTIPLIER + k2.v, warn |-> FALSE]
    ELSE LET k == PyInt(row[1])
         IN IF ~k.ok
            THEN [error |-> RuntimeError("primary key not int", excel_row),
                  row_key |-> 0, warn |-> FALSE]
            ELSE [error |-> NoError, row_key |-> k.v,
                  warn |-> /\ Lower(_actual_field_name(w, 1)) # "id"
                           /\ ~w.first_int_pk_not_named_id_warned]

\* the record of the first id assignment: {"id": int(row_key)} when the id
\* goes first, {} when it goes last
InitialRowObj(id_first, row_key) ==
    IF id_first THEN <<[k |-> "id", v |-> IntV(row_key)]>> ELSE <<>>

\* the closing id assignment: row_obj["id"] = int(row_key) when the id goes last
FinalRowObj(id_first, row_obj, row_key) ==
    IF id_first THEN row_obj ELSE DictSet(row_obj, "id", IntV(row_key))

\* a test under which a None cell without a default fails whatever its label
required_without_default_any_label(default_value, data_label) == default_value.t = "none"
\* `default_value is None and self.data_labels[col_index] == "required"`
required_without_default(default_value, data_label) ==
    default_value.t = "none" /\ data_label = "required"

\* a warned-column test that never finds the column
is_dict_col_warned_never(warned, col_index) == FALSE
\* ReferenceChecker.is_dict_col_warned over _ref_dict_warned_cols
is_dict_col_warned(warned, col_index) == col_index \in warned

RECURSIVE BuildColumns(_, _, _, _, _)
\* the column loop of one row.  acc = [row_obj, pending, warned, lines,
\* error]: the record so far, the reference checks and dict-column warnings
\* added, the lines logged, and the exception that ended the loop
BuildColumns(w, row, excel_row, col_index, acc) ==
    IF col_index > Len(row) \/ acc.error.type # "none" THEN acc
    ELSE IF col_index > Len(w.field_names) \/ w.data_labels[col_index] = "ignore"
    THEN BuildColumns(w, row, excel_row, col_index + 1, acc)
    ELSE
      LET data_name == _actual_field_name(w, col_index)
          type_str == w.data_types[col_index]
          default_value == w.default_values[col_index]
          cell_value == row[col_index]
          missing == /\ cell_value.t = "none"
                     /\ required_without_default(default_value, w.data_labels[col_index])
          conv == IF cell_value.t = "none"
                  THEN convert_to_type(type_str, default_value)
                  ELSE convert_to_type(type_str, cell_value)
          ta == parse_type_annotation(type_str)
          is_ref == col_index \in w._ref_specs
          spec == parse_ref_prefix(w.field_names[col_index])
          item == [excel_row |-> excel_row, field_name |-> data_name,
                   ref_sheet |-> spec.sheet, ref_field |-> spec.field,
                   kind |-> ta.kind, base |-> ta.base, value |-> conv.v]
      IN IF missing
         THEN [acc EXCEPT !.error = RuntimeError(data_name, excel_row)]
         ELSE IF ~conv.ok
         THEN [acc EXCEPT !.error = ConversionError(data_name, excel_row)]
         ELSE BuildColumns(w, row, excel_row, col_index + 1,
                [acc EXCEPT
                   !.row_obj = DictSet(@, data_name, conv.v),
                   !.pending = IF is_ref /\ ta.kind # "dict" THEN Append(@, item) ELSE @,
                   !.lines = IF /\ is_ref /\ ta.kind = "dict"
                                /\ ~is_dict_col_warned(acc.warned, col_index)
                             THEN Append(@, LogLine("warn", "ref_dict_skipped", excel_row,
                                                    data_name, spec.sheet, 0))
                             ELSE @,
                   !.warned = IF is_ref /\ ta.kind = "dict" THEN @ \cup {col_index} ELSE @])

\* a JSON file of an output folder: absent, unreadable (json.load raises), or
\* holding an object key -> record
NoFile == [exists |-> FALSE, readable |-> FALSE, obj |-> <<>>]
BadFile == [exists |-> TRUE, readable |-> FALSE, obj |-> <<>>]
JsonFile(obj) == [exists |-> TRUE, readable |-> TRUE, obj |-> obj]

\* a clear that resets the done flag and keeps the queue
clear_pending_checks_keeps_queue(c) == [c EXCEPT !._reference_checks_done = FALSE]
\* ReferenceChecker.clear_pending_checks
clear_pending_checks(c) ==
    [c EXCEPT !._pending_ref_checks = <<>>, !._reference_checks_done = FALSE]

\* generate_json(output_folder), entry: the queue of the reference checker is
\* cleared and the locals are initialised
GenerateJsonBegin(output_folder) ==
    /\ ws.state = "ready"
    /\ gj.pc \in {"idle", "done"}
    /\ rcf.pc \in {"idle", "done"}
    /\ ~disk[output_folder][ws.name].exists
    /\ checker' = clear_pending_checks(checker)
    /\ gj' = [IdleGj EXCEPT !.pc = "rows", !.output_folder = output_folder]
    /\ rcf' = IdleRcf
    /\ UNCHANGED <<JSON_ID_FIRST, ws, disk, log, registry, batch, call, assets>>

\* generate_json, one iteration of `for row_idx, row in enumerate(row_data)`
GenerateJsonRow ==
    /\ gj.pc = "rows"
    /\ gj.row_idx < Len(ws.row_data)
    /\ LET row == ws.row_data[gj.row_idx + 1]
           excel_row == FIRST_DATA_ROW + gj.row_idx
           key == RowKey(ws, gj, row, excel_row)
           row_key == key.row_key
           warnline == IF key.warn
                       THEN <<LogLine("warn", "pk_not_named_id", 0, "", ws.name, 0)>>
                       ELSE <<>>
           built == BuildColumns(ws, row, excel_row, 1,
                       [row_obj |-> InitialRowObj(JSON_ID_FIRST, row_key), pending |-> <<>>,
                        warned |-> checker._ref_dict_warned_cols, lines |-> <<>>,
                        error |-> NoError])
       IN IF key.error.type # "none"
          THEN /\ gj' = [gj EXCEPT !.pc = "raised", !.error = key.error]
               /\ UNCHANGED <<ws, checker, log>>
          ELSE IF row_key_in_used_keys(gj.used_keys, row_key)
          THEN /\ gj' = [gj EXCEPT !.pc = "raised",
                            !.serial_key = IF ws.need_generate_keys THEN @ + 1 ELSE @,
                            !.error = DuplicatePrimaryKeyError(
                                        row_key, DictGet(gj.used_keys, row_key), excel_row)]
               /\ ws' = [ws EXCEPT !.first_int_pk_not_named_id_warned = @ \/ key.warn]
               /\ log' = log \o warnline
               /\ UNCHANGED checker
          ELSE /\ gj' = [gj EXCEPT
                            !.pc = IF built.error.type = "none" THEN "rows" ELSE "raised",
                            !.row_idx = IF built.error.type = "none" THEN @ + 1 ELSE @,
                            !.serial_key = IF ws.need_generate_keys THEN @ + 1 ELSE @,
                            !.used_keys = DictSet(@, row_key, excel_row),
                            !.data = IF built.error.type = "none"
                                     THEN DictSet(@, row_key,
                                            FinalRowObj(JSON_ID_FIRST, built.row_obj, row_key))
                                     ELSE @,
                            !.error = built.error]
               /\ ws' = [ws EXCEPT !.first_int_pk_not_named_id_warned = @ \/ key.warn]
               /\ checker' = [checker EXCEPT
                                 !._pending_ref_checks = @ \o built.pending,
                                 !._ref_dict_warned_cols = built.warned]
               /\ log' = log \o warnline \o built.lines
    /\ UNCHANGED <<JSON_ID_FIRST, rcf, disk, registry, batch, call, assets>>

\* json.dumps(data): the int keys of the object become strings, the records
\* keep the order of their fields
JsonDump(data) == [i \in 1..Len(data) |-> [k |-> ToString(data[i].k), v |-> data[i].v]]

\* generate_json, after the loop: json.dumps and write_to_file
GenerateJsonWrite ==
    /\ gj.pc = "rows"
    /\ gj.row_idx = Len(ws.row_data)
    /\ gj' = [gj EXCEPT !.pc = "done"]
    /\ disk' = [disk EXCEPT ![gj.output_folder][ws.name] = JsonFile(JsonDump(gj.data))]
    /\ UNCHANGED <<JSON_ID_FIRST, ws, checker, rcf, log, registry, batch, call, assets>>

-----------------------------------------------------------------------------
(* ReferenceChecker.run_checks (validation/reference_checker.py) *)

\* naming_config.REFERENCE_ALLOW_EMPTY_INT_VALUES / _STRING_VALUES
REFERENCE_ALLOW_EMPTY_INT_VALUES == {0}
REFERENCE_ALLOW_EMPTY_STRING_VALUES == {""}

\* infer_base_from_value; "" is None
infer_base_from_value(v) ==
    CASE v.t = "bool" -> "bool"
      [] v.t = "int" -> "int"
      [] v.t = "string" -> "string"
      [] OTHER -> ""

\* infer_base_from_set returns the base of the first value, in the set's
\* iteration order, that has one: any of these, or None for a set without
BasesOf(values) ==
    IF \E x \in values : infer_base_from_value(x) # ""
    THEN {infer_base_from_value(x) : x \in values} \ {""}
    ELSE {""}

\* value_type_ok (field_parser.py)
value_type_ok(base, v) ==
    CASE v.t = "none" -> FALSE
      [] base = "int" -> v.t = "int"
      [] base = "float" -> v.t = "int"
      [] base = "string" -> v.t = "string"
      [] base = "bool" -> v.t = "bool"
      [] OTHER -> TRUE

RECURSIVE PickFrom(_, _)
\* pick_first_nonempty_field: the first field of the record, in order, whose
\* value is no container and neither None nor ""; "" is None
PickFrom(rec, i) ==
    IF i > Len(rec) THEN ""
    ELSE IF rec[i].v.t \in {"list", "dict"} THEN PickFrom(rec, i + 1)
    ELSE IF rec[i].v.t = "none" \/ (rec[i].v.t = "string" /\ rec[i].v.s = "")
    THEN PickFrom(rec, i + 1)
    ELSE rec[i].k

pick_first_nonempty_field(rec) == PickFrom(rec, 1)

\* the first search directory (None entries skipped) holding <sheet>.json
FoundDirs(search_dirs, sheet) ==
    {i \in 1..Len(search_dirs) : search_dirs[i] # "" /\ disk[search_dirs[i]][sheet].exists}

\* build_set_for(col): the values of col over the records that have it
build_set_for(obj, col) ==
    {DictGet(obj[i].v, col) : i \in {j \in 1..Len(obj) : DictHas(obj[j].v, col)}}

\* the field a reference resolves to: the field given, else the first
\* non-empty scalar field of the first record, else "id"
RealField(obj, field) ==
    IF field # "" THEN field
    ELSE IF obj = <<>> THEN "id"
    ELSE IF pick_first_nonempty_field(obj[1].v) # ""
         THEN pick_first_nonempty_field(obj[1].v)
         ELSE "id"

\* a reference set that is found although there is no JSON: an empty one
NonePackFound == [found |-> TRUE, values |-> {}, base |-> "", real_field |-> ""]
NonePack == [found |-> FALSE, values |-> {}, base |-> "", real_field |-> ""]

\* load_ref_set(sheet, field) in frame f: [pack, f], the pack returned and the
\* caches after the call.  pick is the base infer_base_from_set yields should
\* this call build a value set.
load_ref_set(f, sheet, field, pick) ==
    LET key == <<sheet, field>>
        missing == [pack |-> NonePack,
                    f |-> [f EXCEPT !.json_missing = @ \cup {sheet},
                                    !.cache = IF field # "" THEN DictSet(@, key, NonePack)
                                              ELSE @]]
        dirs == FoundDirs(f.search_dirs, sheet)
        first == CHOOSE i \in dirs : \A j \in dirs : i <= j
        file == disk[f.search_dirs[first]][sheet]
    IN IF field # "" /\ DictHas(f.cache, key)
       THEN [pack |-> DictGet(f.cache, key), f |-> f]
       ELSE IF sheet \in f.json_missing THEN missing
       ELSE IF ~DictHas(f.json_obj_cache, sheet) /\ (dirs = {} \/ ~file.readable)
       THEN missing
       ELSE LET obj == IF DictHas(f.json_obj_cache, sheet)
                       THEN DictGet(f.json_obj_cache, sheet) ELSE file.obj
                f1 == [f EXCEPT !.json_obj_cache = DictSet(@, sheet, obj)]
                real_field == RealField(obj, field)
                key_rf == <<sheet, real_field>>
                built == [found |-> TRUE, values |-> build_set_for(obj, real_field),
                          base |-> pick, real_field |-> real_field]
                pack == IF DictHas(f1.cache, key_rf) THEN DictGet(f1.cache, key_rf)
                        ELSE built
                c1 == DictSet(f1.cache, key_rf, pack)
                c2 == IF field # "" THEN DictSet(c1, key, pack) ELSE c1
            IN [pack |-> pack, f |-> [f1 EXCEPT !.cache = c2]]

\* the bases load_ref_set may infer for (sheet, field): those of the value
\* set it would build
PickChoices(f, sheet, field) ==
    LET dirs == FoundDirs(f.search_dirs, sheet)
        first == CHOOSE i \in dirs : \A j \in dirs : i <= j
        obj == IF DictHas(f.json_obj_cache, sheet) THEN DictGet(f.json_obj_cache, sheet)
               ELSE disk[f.search_dirs[first]][sheet].obj
    IN IF ~DictHas(f.json_obj_cache, sheet) /\ dirs = {} THEN {""}
       ELSE BasesOf(build_set_for(obj, RealField(obj, field)))

\* a sentinel test that allows no value
_is_empty_ref_never(val, base_type) == FALSE
\* _is_empty_ref: the allowed-empty sentinels of a base type
_is_empty_ref(val, base_type) ==
    CASE base_type = "int" ->
           IsNumeric(val) /\ val.n \in REFERENCE_ALLOW_EMPTY_INT_VALUES
      [] base_type = "string" ->
           val.t = "string" /\ val.s \in REFERENCE_ALLOW_EMPTY_STRING_VALUES
      [] OTHER -> FALSE

\* check_one(v, expected_base): the line it logs (none: <<>>) and whether it
\* sets any_error
check_one(item, n, pack, v, expected_base) ==
    IF _is_empty_ref(v, IF expected_base # "" THEN expected_base ELSE pack.base)
    THEN [lines |-> <<>>, any_error |-> FALSE]
    ELSE IF expected_base # "" /\ ~value_type_ok(expected_base, v)
    THEN [lines |-> <<LogLine("error", "value_type", item.excel_row, item.field_name,
                              item.ref_sheet, n)>>,
          any_error |-> FALSE]
    ELSE IF ~PyIn(v, pack.values)
    THEN [lines |-> <<LogLine("error", "missing_ref", item.excel_row, item.field_name,
                              item.ref_sheet, n)>>,
          any_error |-> TRUE]
    ELSE [lines |-> <<>>, any_error |-> FALSE]

RECURSIVE CheckElements(_, _, _, _, _, _)
\* `for ele in value: check_one(ele, base or ref_base)`
CheckElements(item, n, pack, elems, expected_base, acc) ==
    IF elems = <<>> THEN acc
    ELSE LET r == check_one(item, n, pack, Head(elems), expected_base)
         IN CheckElements(item, n, pack, Tail(elems), expected_base,
               [lines |-> acc.lines \o r.lines, any_error |-> acc.any_error \/ r.any_error])

\* the body of the loop of run_checks for the n-th pending check, its
\* reference set found: the lines logged and whether any_error is set
CheckItem(item, n, pack) ==
    LET mismatch == item.base # "" /\ pack.base # "" /\ item.base # pack.base
        expected == IF item.base # "" THEN item.base ELSE pack.base
        m == IF mismatch
             THEN <<LogLine("error", "ref_type_mismatch", item.excel_row, item.field_name,
                            item.ref_sheet, n)>>
             ELSE <<>>
        body == IF item.kind = "scalar"
                THEN check_one(item, n, pack, item.value, expected)
                ELSE IF item.kind = "list"
                THEN (IF item.value.t = "list"
                      THEN CheckElements(item, n, pack, item.value.l, expected,
                                         [lines |-> <<>>, any_error |-> FALSE])
                      ELSE [lines |-> <<LogLine("error", "not_a_list", item.excel_row,
                                                item.field_name, item.ref_sheet, n)>>,
                            any_error |-> FALSE])
                ELSE [lines |-> <<>>, any_error |-> FALSE]
    IN [lines |-> m \o body.lines, any_error |-> mismatch \/ body.any_error]

\* a run_checks entry that runs the queue whether it was checked or not
RunChecksBegin_ignores_done(search_dirs) ==
    /\ ws.state = "ready"
    /\ gj.pc \in {"idle", "done"}
    /\ rcf.pc \in {"idle", "done"}
    /\ rcf' = IF checker._pending_ref_checks = <<>>
              THEN [IdleRcf EXCEPT !.pc = "done", !.search_dirs = search_dirs,
                                   !.skipped = TRUE]
              ELSE [IdleRcf EXCEPT !.pc = "items", !.search_dirs = search_dirs]
    /\ UNCHANGED <<JSON_ID_FIRST, ws, gj, checker, disk, log, registry, batch, call, assets>>

\* run_checks(search_dirs), entry: a queue already checked, or empty, returns
RunChecksBegin(search_dirs) ==
    /\ ws.state = "ready"
    /\ gj.pc \in {"idle", "done"}
    /\ rcf.pc \in {"idle", "done"}
    /\ rcf' = IF checker._reference_checks_done \/ checker._pending_ref_checks = <<>>
              THEN [IdleRcf EXCEPT !.pc = "done", !.search_dirs = search_dirs,
                                   !.skipped = TRUE]
              ELSE [IdleRcf EXCEPT !.pc = "items", !.search_dirs = search_dirs]
    /\ UNCHANGED <<JSON_ID_FIRST, ws, gj, checker, disk, log, registry, batch, call, assets>>

\* run_checks, one iteration of `for item in self._pending_ref_checks`
RunChecksItem ==
    /\ rcf.pc = "items"
    /\ rcf.idx < Len(checker._pending_ref_checks)
    /\ LET n == rcf.idx + 1
           item == checker._pending_ref_checks[n]
       IN \E pick \in PickChoices(rcf, item.ref_sheet, item.ref_field) :
            LET r == load_ref_set(rcf, item.ref_sheet, item.ref_field, pick)
                res == CheckItem(item, n, r.pack)
                missing == LogLine("warn", "ref_json_missing", item.excel_row,
                                   item.field_name, item.ref_sheet, n)
            IN IF ~r.pack.found
               THEN /\ rcf' = [r.f EXCEPT !.idx = n, !.logged = Append(@, missing)]
                    /\ log' = Append(log, missing)
               ELSE /\ rcf' = [r.f EXCEPT !.idx = n, !.any_error = @ \/ res.any_error,
                                          !.logged = @ \o res.lines]
                    /\ log' = log \o res.lines
    /\ UNCHANGED <<JSON_ID_FIRST, ws, gj, checker, disk, registry, batch, call, assets>>

\* run_checks, after the loop: the success line and the done flag
RunChecksEnd ==
    /\ rcf.pc = "items"
    /\ rcf.idx = Len(checker._pending_ref_checks)
    /\ LET ok == IF checker._pending_ref_checks # <<>> /\ ~rcf.any_error
                 THEN <<LogLine("info", "refs_ok", 0, "", ws.name, 0)>>
                 ELSE <<>>
       IN /\ rcf' = [rcf EXCEPT !.pc = "done", !.logged = @ \o ok]
          /\ log' = log \o ok
    /\ checker' = [checker EXCEPT !._reference_checks_done = TRUE]
    /\ UNCHANGED <<JSON_ID_FIRST, ws, gj, disk, registry, batch, call, assets>>

-----------------------------------------------------------------------------
(* The sheets and output folders of the model *)

Folders == {"client", "project"}
\* the search directories of run_reference_checks: the client and the project
\* output folder, either of which may be None ("")
SearchDirChoices == {<<"client", "project">>, <<"client", "">>, <<"", "project">>}

SeqsUpTo(S, n) == UNION {[1..k -> S] : k \in 0..n}

\* a worksheet as read by __init__, before the key strategy is detected
Sheet(field_names, data_types, data_labels, default_values, rows) ==
    [state |-> "new", name |-> "A", field_names |-> field_names,
     remarks |-> [i \in DOMAIN field_names |-> NoneV],
     headers |-> [i \in DOMAIN field_names |-> StrV("h")],
     data_types |-> data_types, data_labels |-> data_labels,
     default_values |-> default_values, row_data |-> rows,
     need_generate_keys |-> FALSE, composite_keys |-> FALSE,
     first_int_pk_not_named_id_warned |-> FALSE, _ref_specs |-> {},
     error |-> NoError]

\* int key in column `id`, a required int column
SimpleSheets ==
    {Sheet(<<Plain("id"), Plain("val")>>, <<"int", "int">>, <<"", "required">>,
           <<NoneV, NoneV>>, rows) :
       rows \in SeqsUpTo({<<k, v>> : k \in {IntV(1), IntV(2), StrV("1"), StrV("x")},
                                    v \in {IntV(5), NoneV}}, MaxRows)}

\* header rows whose lengths drift from the two columns of the field-name row
HeaderLens == 1..3
DriftSheets ==
    {[Sheet(<<Plain("id"), Plain("val")>>, [i \in 1..nt |-> "int"], [i \in 1..nl |-> ""],
            [i \in 1..nd |-> NoneV], <<<<IntV(1), IntV(5)>>>>)
        EXCEPT !.remarks = [i \in 1..nr |-> NoneV],
               !.headers = [i \in 1..nh |-> StrV("h")]] :
       nr \in HeaderLens, nh \in HeaderLens, nt \in HeaderLens, nl \in HeaderLens,
       nd \in HeaderLens}

\* int key in a column not named id, and a later int column named id
IdColumnSheets ==
    {Sheet(<<Plain("key"), Plain("id")>>, <<"int", "int">>, <<"", "">>,
           <<NoneV, NoneV>>, rows) :
       rows \in SeqsUpTo({<<IntV(k), IntV(v)>> : k \in {1, 2}, v \in {1, 2}}, MaxRows)}

\* key1: / key2: int columns, an ignored column between the data columns
CompositeKeyValues1 == {0, 1, 46339}
CompositeKeyValues2 == {0, 46339, 46340}
CompositeSheets ==
    {Sheet(<<Key1(n), Key2("sub"), Plain("note"), Plain("val")>>,
           <<"int", "int", "string", "int">>, <<"", "", "ignore", "">>,
           <<NoneV, NoneV, NoneV, IntV(5)>>, rows) :
       n \in {"grp", "id"},
       rows \in SeqsUpTo({<<IntV(k1), IntV(k2), StrV("x"), NoneV>> :
                             k1 \in CompositeKeyValues1, k2 \in CompositeKeyValues2},
                         MaxRows)}

\* rows of the sheets that hold a key three times
MaxKeyScanRows == 3
\* composite and string-key sheets of up to MaxKeyScanRows rows over two keys
DuplicateKeySheets ==
    {Sheet(<<Key1("grp"), Key2("sub"), Plain("note"), Plain("val")>>,
           <<"int", "int", "string", "int">>, <<"", "", "ignore", "">>,
           <<NoneV, NoneV, NoneV, IntV(5)>>, rows) :
       rows \in SeqsUpTo({<<IntV(1), IntV(k2), StrV("x"), NoneV>> : k2 \in {1, 2}},
                         MaxKeyScanRows)}
    \cup
    {Sheet(<<Plain("name"), Plain("val")>>, <<"string", "int">>, <<"", "">>,
           <<NoneV, NoneV>>, rows) :
       rows \in SeqsUpTo({<<StrV(k), IntV(5)>> : k \in {"A", "B"}}, MaxKeyScanRows)}

\* string first column: keys are generated serially
EnumKeySheets ==
    {Sheet(<<Plain("name"), Plain("val")>>, <<"string", "int">>, <<"", "">>,
           <<NoneV, NoneV>>, rows) :
       rows \in SeqsUpTo({<<StrV(k), IntV(5)>> : k \in {"A", "B", "1x"}}, MaxRows)}

\* int key and a column `val` of some type, label and default, whose cells
\* may be None
NoneCellSheets ==
    {Sheet(<<Plain("id"), Plain("val")>>, <<"int", t>>, <<"", l>>, <<NoneV, d>>, rows) :
       t \in {"int", "string", "list(int)"},
       l \in {"required", "", "ignore"},
       d \in {NoneV, IntV(5), StrV("x")},
       rows \in SeqsUpTo({<<IntV(1), NoneV>>, <<IntV(2), IntV(6)>>}, MaxRows)}

\* a key column `code` declared string, str or int
KeyTypeSheets ==
    {Sheet(<<Plain("code"), Plain("val")>>, <<t, "int">>, <<"", "">>, <<NoneV, NoneV>>, rows) :
       t \in {"string", "str", "int"},
       rows \in SeqsUpTo({<<StrV("A"), IntV(5)>>, <<IntV(1), IntV(5)>>}, 1)}

\* key1: / key2: int columns that may be labelled ignore, and a string column
BothKeySheets ==
    {Sheet(<<Key1("a"), Key2("b"), Plain("c")>>, <<"int", "int", "string">>,
           <<l1, l2, "">>, <<NoneV, NoneV, NoneV>>, rows) :
       l1 \in {"", "ignore"}, l2 \in {"", "ignore"},
       rows \in SeqsUpTo({<<IntV(1), IntV(2), StrV("x")>>,
                           <<StrV("A"), IntV(2), StrV("x")>>}, 1)}

\* an int key column `id` and two int columns whose field names may be no
\* identifiers, annotated or not, and may be labelled ignore
FieldNameSheets ==
    {Sheet(<<Plain("id"), n2, n3>>, <<"int", "int", "int">>, <<"", l2, l3>>,
           <<NoneV, NoneV, NoneV>>, rows) :
       n2 \in {Plain("val"), Plain("1x"), Ref("B", "", "1x"), Ref("B", "id", "val")},
       n3 \in {Plain("w"), Plain("a b")},
       l2 \in {"", "ignore"}, l3 \in {"", "ignore"},
       rows \in SeqsUpTo({<<IntV(1), IntV(5), IntV(6)>>}, 1)}

\* the cells of a reference column, by declared type
RefCells(type_str) ==
    CASE type_str = "int" -> {IntV(5), IntV(6), IntV(0)}
      [] type_str = "string" -> {StrV("x"), StrV("z"), NoneV}
      [] type_str = "list(int)" -> {StrV("5,6"), IntV(5)}
      [] OTHER -> {StrV("1:2")}

\* int key and a column [B]target or [B/name]target; row i has key i
RefSheets ==
    UNION {
      {Sheet(<<Plain("id"), Ref("B", field, "target")>>, <<"int", type_str>>,
             <<"", "">>, <<NoneV, NoneV>>,
             [i \in DOMAIN cells |-> <<IntV(i), cells[i]>>]) :
         cells \in SeqsUpTo(RefCells(type_str), MaxRefRows)} :
      field \in {"", "name"},
      type_str \in {"int", "string", "list(int)", "dict(int,int)"}}

\* int key, a column [B]target and a column [A]parent referring to the sheet
\* itself; row i has key i
TwoRefSheets ==
    {Sheet(<<Plain("id"), Ref("B", "", "target"), Ref("A", "", "parent")>>,
           <<"int", "int", "int">>, <<"", "", "">>, <<NoneV, NoneV, NoneV>>,
           [i \in DOMAIN cells |-> <<IntV(i), cells[i][1], cells[i][2]>>]) :
       cells \in SeqsUpTo({<<IntV(t), IntV(p)>> : t \in {5, 6}, p \in {1, 9}}, MaxRefRows)}

\* int key and two dict columns annotated [B] and [B/name]; row i has key i
DictRefSheets ==
    {Sheet(<<Plain("id"), Ref("B", "", "target"), Ref("B", "name", "links")>>,
           <<"int", "dict(int,int)", "dict(int,int)">>, <<"", "", "">>,
           <<NoneV, NoneV, NoneV>>,
           [i \in 1..n |-> <<IntV(i), StrV("1:2"), StrV("1:2")>>]) : n \in 0..MaxRows}

\* int key, the columns [B]target (int), [B/name]links (a dict) and
\* [A]parent (int); row i has key i
TwoRowRefSheets ==
    {Sheet(<<Plain("id"), Ref("B", "", "target"), Ref("B", "name", "links"),
             Ref("A", "", "parent")>>,
           <<"int", "int", "dict(int,int)", "int">>, <<"", "", "", "">>,
           <<NoneV, NoneV, NoneV, NoneV>>,
           [i \in 1..n |-> <<IntV(i), IntV(4 + i), StrV("1:2"), IntV(1)>>]) : n \in 0..MaxRows}

\* B.json as an earlier export may have left it
Rec(id, name) == <<[k |-> "id", v |-> IntV(id)], [k |-> "name", v |-> name]>>
BOne == <<[k |-> "5", v |-> Rec(5, StrV("x"))]>>
\* the second record lacks the field name
BTwo == <<[k |-> "5", v |-> Rec(5, StrV("x"))],
          [k |-> "7", v |-> <<[k |-> "id", v |-> IntV(7)]>>]>>
\* a name column holding a string and an int
BMixed == <<[k |-> "5", v |-> Rec(5, StrV("x"))], [k |-> "6", v |-> Rec(6, IntV(6))]>>
\* records written with the id last
BIdLast == <<[k |-> "5", v |-> <<[k |-> "name", v |-> StrV("x")],
                                 [k |-> "id", v |-> IntV(5)]>>]>>

EmptyDisk == [d \in Folders |-> [sh \in {"A", "B"} |-> NoFile]]
Disks ==
    {[EmptyDisk EXCEPT !["client"]["B"] = c, !["project"]["B"] = p] :
       c \in {NoFile, BadFile, JsonFile(BOne), JsonFile(BTwo), JsonFile(BMixed)},
       p \in {NoFile, JsonFile(BIdLast)}}

\* no sheet: the state of the sheet variables where no sheet is modelled
IdleSheet == Sheet(<<>>, <<>>, <<>>, <<>>, <<>>)

\* the result of the last registry call: the call, whether it raised
\* ExportError, and the value returned
NoResult == [op |-> "none", enum_name |-> "", item_name |-> "", raised |-> FALSE,
             value |-> 0, items |-> <<>>]
\* EnumRegistry.__init__: three empty dicts.  `first` records, per enum name,
\* what its first successful registration gave; `calls` counts the calls.
IdleRegistry == [_enums |-> <<>>, _enum_namespaces |-> <<>>, _enum_sources |-> <<>>,
                 first |-> <<>>, result |-> NoResult, calls |-> 0]
\* batch_excel_to_json before it is called: its arguments and its locals.
\* A folder argument is a name or None (""); `done` holds the outcome of each
\* file of the data phase, `exported` the JSON files written, `ref_checked`
\* the run_reference_checks calls made, `enum_fault` the first duplicate enum
\* or invalid enum item name met while enums were collected.
NewBatch(files, client, project, enum_folder, auto_cleanup) ==
    [pc |-> "idle", files |-> files, output_client_folder |-> client,
     output_project_folder |-> project, enum_output_folder |-> enum_folder,
     auto_cleanup |-> auto_cleanup, i |-> 0, enum_files_to_export |-> <<>>,
     enums_exported |-> <<>>, enum_fault |-> "none", sheets |-> <<>>,
     file_sheet_map |-> <<>>, done |-> <<>>, exported |-> <<>>, r |-> 0,
     ref_checked |-> <<>>, cleaned |-> FALSE]
IdleBatch == NewBatch(<<>>, "", "", "", FALSE)
\* no call made: op is the function called, args its arguments, ok whether it
\* returned (FALSE: it raised), v what it returned, warnings the log_warn
\* lines it emitted
IdleCall == [op |-> "none", args |-> <<>>, done |-> FALSE, ok |-> TRUE, v |-> NoneV, warnings |-> 0]

\* a call of `op` with `args` that has not run yet
PendingCall(op, args) == [IdleCall EXCEPT !.op = op, !.args = args]

\* the call returned v, or raised, after so many warnings
Returned(c, ok, v, warnings) == [c EXCEPT !.done = TRUE, !.ok = ok, !.v = v, !.warnings = warnings]

\* _ASSET_VALIDATOR = None and _ASSET_VALIDATOR_KEY = None
NoValidator ==
    [built |-> FALSE, collector_setting |-> <<>>, strict |-> FALSE, project_root |-> <<>>,
     roots |-> <<>>, _index |-> {}, opened |-> <<>>]
NoKey == [set |-> FALSE, path |-> <<>>, strict |-> FALSE]
\* no sheet_config.json is found
NoCfg == [present |-> FALSE, collector_setting |-> <<>>, strict |-> NoneV]
\* the working directories of the process; paths are sequences of names,
\* an absolute path starts with "/"
WorkDirs == {<<"/", "p">>, <<"/", "q">>}
\* the collector setting files the process may find
CollectorFiles == {<<"/", "p", "Assets", "c.asset">>, <<"/", "q", "Assets", "c.asset">>}
NoCollectorFile == [exists |-> FALSE, lines |-> <<>>]
\* the module globals of asset_validator after import, in a process that
\* finds no configuration and no collector file; called, returned and rebuilt
\* say that get_asset_validator was called, what the last call returned and
\* whether it ran the AssetValidator constructor
IdleAssets ==
    [_ASSET_VALIDATOR |-> NoValidator, _ASSET_VALIDATOR_KEY |-> NoKey,
     cfg |-> NoCfg, cwd |-> <<"/", "p">>, fs |-> [f \in CollectorFiles |-> NoCollectorFile],
     called |-> FALSE, returned |-> NoValidator, rebuilt |-> FALSE]

Init ==
    /\ JSON_ID_FIRST \in BOOLEAN
    /\ \/ /\ ws \in SimpleSheets \cup IdColumnSheets \cup CompositeSheets \cup EnumKeySheets
                   \cup DriftSheets \cup KeyTypeSheets \cup BothKeySheets
                   \cup NoneCellSheets \cup FieldNameSheets
                   \cup DuplicateKeySheets \cup DictRefSheets \cup TwoRowRefSheets
          /\ disk = EmptyDisk
       \/ /\ ws \in RefSheets \cup TwoRefSheets
          /\ disk \in Disks
    /\ gj = IdleGj
    /\ checker = NewChecker
    /\ rcf = IdleRcf
    /\ log = <<>>
    /\ registry = IdleRegistry
    /\ batch = IdleBatch
    /\ call = IdleCall
    /\ assets = IdleAssets

Next ==
    \/ Construct
    \/ \E output_folder \in Folders : GenerateJsonBegin(output_folder)
    \/ GenerateJsonRow
    \/ GenerateJsonWrite
    \/ \E search_dirs \in SearchDirChoices : RunChecksBegin(search_dirs)
    \/ RunChecksItem
    \/ RunChecksEnd

Spec == Init /\ [][Next]_vars

-----------------------------------------------------------------------------
(* Properties of generate_json *)

\* the key generate_json computes for data row i (1-based) of the sheet
KeyOfRow(i) ==
    RowKey(ws, [serial_key |-> i - 1], ws.row_data[i], FIRST_DATA_ROW + i - 1).row_key

\* C1: generate_json raises DuplicatePrimaryKeyError as soon as a row computes
\* a key an earlier row of the export produced: the rows it has got past have
\* pairwise different keys; the error names the Excel rows (7 + data index) of
\* the earlier and of the later row, both of which compute the key it names;
\* and a finished export holds one record per row, no two under one key, and
\* is what was written.
C1_DuplicateKeyNamesBothRows ==
    /\ gj.pc \in {"rows", "done"} =>
          \A i, j \in 1..gj.row_idx : i < j => KeyOfRow(i) # KeyOfRow(j)
    /\ (gj.pc = "raised" /\ gj.error.type = "DuplicatePrimaryKeyError") =>
          /\ gj.error.row_b = FIRST_DATA_ROW + gj.row_idx
          /\ gj.error.row_a \in FIRST_DATA_ROW..(gj.error.row_b - 1)
          /\ KeyOfRow(gj.error.row_a - FIRST_DATA_ROW + 1) = gj.error.key
          /\ KeyOfRow(gj.row_idx + 1) = gj.error.key
    /\ gj.pc = "done" =>
          /\ Len(gj.data) = Len(ws.row_data)
          /\ \A i, j \in 1..Len(gj.data) : i # j => gj.data[i].k # gj.data[j].k
          /\ disk[gj.output_folder][ws.name] = JsonFile(JsonDump(gj.data))

\* C1, its case: the second row (Excel row 8) repeats the int key of the
\* first (Excel row 7) in a cell of another value (1 and "1"), and the
\* export raised naming both rows
C1_Witness ==
    /\ gj.pc = "raised"
    /\ gj.error = DuplicatePrimaryKeyError(1, 7, 8)
    /\ ws.row_data[1][1] # ws.row_data[2][1]

\* C2, as stated: every record generate_json has written has an `id` field
\* that is the integer key the record is stored under
C2_IdEqualsPrimaryKey ==
    gj.pc = "done" =>
        /\ disk[gj.output_folder][ws.name].obj = JsonDump(gj.data)
        /\ \A i \in 1..Len(gj.data) :
              /\ DictHas(gj.data[i].v, "id")
              /\ DictGet(gj.data[i].v, "id") = IntV(gj.data[i].k)

\* the (key1, key2) cells of data row i as integers
KeyPair(i) == <<PyInt(ws.row_data[i][1]).v, PyInt(ws.row_data[i][2]).v>>
\* in-range key parts, the ends of the range among them
InRangeSamples == {0, 1, 2, MAX_KEY2 - 2, MAX_KEY2 - 1}
\* both parts of the key pair of data row i are in 0..MAX_KEY2-1
PairInRange(i) == \A n \in 1..2 : 0 <= KeyPair(i)[n] /\ KeyPair(i)[n] < MAX_KEY2

\* C3: k1 * 46340 + k2 is injective on in-range parts (checked on the sample
\* parts), and under the composite strategy a duplicate key is never
\* reported, by the pre-scan of the constructor or by generate_json, for two
\* rows whose in-range (key1, key2) pairs differ
C3_CompositeKeyInjective ==
    /\ \A k1, k2, j1, j2 \in InRangeSamples :
          k1 * MULTIPLIER + k2 = j1 * MULTIPLIER + j2 => k1 = j1 /\ k2 = j2
    /\ ws.composite_keys =>
          \A e \in {ws.error, gj.error} :
              LET a == e.row_a - FIRST_DATA_ROW + 1
                  b == e.row_b - FIRST_DATA_ROW + 1
              IN (e.type = "DuplicatePrimaryKeyError" /\ PairInRange(a) /\ PairInRange(b))
                     => KeyPair(a) = KeyPair(b)

\* C3, its case: a composite sheet with the rows (0, 46339) and (1, 0) was
\* exported, each row under a key of its own
C3_Witness ==
    /\ ws.composite_keys
    /\ gj.pc = "done"
    /\ Len(ws.row_data) = 2
    /\ KeyPair(1) = <<0, MAX_KEY2 - 1>>
    /\ KeyPair(2) = <<1, 0>>
    /\ Len(gj.data) = 2

\* the data rows whose composite key pair is (46339, 46339)
MaxPairRows == {i \in 1..Len(ws.row_data) : KeyPair(i) = <<46339, 46339>>}

\* C4, as stated: the pair (46339, 46339) combines to a key of 2^31 or more,
\* and the export of a row with that pair fails: generate_json never gets
\* past such a row
C4_MaxPairOverflows ==
    ws.composite_keys =>
        \A i \in MaxPairRows :
            /\ gj.pc \in {"rows", "done"} => gj.row_idx < i
            /\ (gj.pc = "raised" /\ gj.row_idx = i - 1) =>
                   /\ 46339 * MULTIPLIER + 46339 > INT32_MAX
                   /\ gj.error.type = "CompositeKeyOverflowError"

\* C4, amended: the pair (46339, 46339) combines to 2147395599, which is
\* below 2^31; generate_json never raises CompositeKeyOverflowError, and a row
\* with that pair it has got past is exported under the key 2147395599
C4_MaxPairFits ==
    /\ 46339 * MULTIPLIER + 46339 = 2147395599
    /\ 2147395599 <= INT32_MAX
    /\ gj.error.type # "CompositeKeyOverflowError"
    /\ (ws.composite_keys /\ gj.pc \in {"rows", "done"}) =>
          \A i \in MaxPairRows : i <= gj.row_idx => DictHas(gj.data, 2147395599)

\* C4, its case: a composite sheet with a row (46339, 46339) was exported
C4_Witness ==
    /\ ws.composite_keys
    /\ gj.pc = "done"
    /\ MaxPairRows # {}
    /\ disk[gj.output_folder][ws.name].exists

-----------------------------------------------------------------------------
(* Properties of run_checks *)

\* a run of run_checks that entered its loop
RunChecksRan == rcf.pc \in {"items", "done"} /\ ~rcf.skipped
\* the n-th pending check
PendingItem(n) == checker._pending_ref_checks[n]
\* the lines the running / last run logged for the n-th pending check
LinesOf(n) == SelectSeq(rcf.logged, LAMBDA l : l.item = n)
ErrorsOf(n) == SelectSeq(rcf.logged, LAMBDA l : l.item = n /\ l.level = "error")
\* no search directory of the run holds the JSON of the sheet check n refers to
NoTargetJson(n) ==
    \A i \in 1..Len(rcf.search_dirs) :
        rcf.search_dirs[i] = "" \/ ~disk[rcf.search_dirs[i]][PendingItem(n).ref_sheet].exists
\* the JSON object check n is checked against: that of the first search
\* directory holding the sheet's file
TargetObj(n) ==
    LET hits == {i \in 1..Len(rcf.search_dirs) :
                    /\ rcf.search_dirs[i] # ""
                    /\ disk[rcf.search_dirs[i]][PendingItem(n).ref_sheet].exists}
        first == CHOOSE i \in hits : \A j \in hits : i <= j
    IN disk[rcf.search_dirs[first]][PendingItem(n).ref_sheet]
\* the target field check n resolves to, and its values over all records
TargetField(n) == RealField(TargetObj(n).obj, PendingItem(n).ref_field)
TargetValues(n) ==
    {DictGet(TargetObj(n).obj[i].v, TargetField(n)) :
        i \in {j \in 1..Len(TargetObj(n).obj) : DictHas(TargetObj(n).obj[j].v, TargetField(n))}}
\* the base type run_checks inferred for the target field of check n
TargetBase(n) == DictGet(rcf.cache, <<PendingItem(n).ref_sheet, TargetField(n)>>).base
\* the value is an allowed-empty sentinel of the base type
IsSentinel(v, base) ==
    \/ base = "int" /\ v.t = "int" /\ v.n \in REFERENCE_ALLOW_EMPTY_INT_VALUES
    \/ base = "string" /\ v.t = "string" /\ v.s \in REFERENCE_ALLOW_EMPTY_STRING_VALUES
\* check n is a scalar check whose target JSON exists and is read, and whose
\* declared base type is the inferred base type of the target field
ScalarCheckAgainstSameBase(n) ==
    /\ PendingItem(n).kind = "scalar"
    /\ ~NoTargetJson(n)
    /\ TargetObj(n).readable
    /\ PendingItem(n).base = TargetBase(n)

\* C6: for a processed scalar check whose target JSON exists and whose
\* declared base type equals the inferred one, run_checks logs no error iff
\* the value is among the values of the resolved target field over all
\* records of the target sheet or is an allowed-empty sentinel of its base
\* type; otherwise it logs exactly one error, the missing reference naming
\* the source row, the field and the target sheet, and counts an error
C6_ScalarReferenceCheck ==
    RunChecksRan =>
        \A n \in 1..rcf.idx :
            ScalarCheckAgainstSameBase(n) =>
                LET item == PendingItem(n)
                IN IF \/ PyIn(item.value, TargetValues(n))
                      \/ IsSentinel(item.value, item.base)
                   THEN ErrorsOf(n) = <<>>
                   ELSE /\ ErrorsOf(n) = <<LogLine("error", "missing_ref", item.excel_row,
                                                   item.field_name, item.ref_sheet, n)>>
                        /\ rcf.any_error

\* C6, its cases: a finished run over a row with [B]target = 5 and
\* [A]parent = 9, B.json holding the id 5 and A.json the id 1: the first check
\* passed, the second was reported as a missing reference
C6_Witness ==
    /\ rcf.pc = "done" /\ RunChecksRan
    /\ rcf.idx = 2
    /\ ScalarCheckAgainstSameBase(1) /\ ScalarCheckAgainstSameBase(2)
    /\ PendingItem(1).value = IntV(5) /\ TargetValues(1) = {IntV(5)}
    /\ PendingItem(2).value = IntV(9) /\ TargetValues(2) = {IntV(1)}
    /\ ErrorsOf(1) = <<>>
    /\ Len(ErrorsOf(2)) = 1

\* C7: a processed check whose target sheet has no JSON in any search
\* directory logs one warning and nothing else, and counts no error: an error
\* counted by the run comes with an error line of a check whose target JSON
\* exists; and the run goes on to every pending check
C7_MissingJsonWarnsOnly ==
    RunChecksRan =>
        /\ \A n \in 1..rcf.idx :
              NoTargetJson(n) =>
                  LinesOf(n) = <<LogLine("warn", "ref_json_missing", PendingItem(n).excel_row,
                                         PendingItem(n).field_name, PendingItem(n).ref_sheet, n)>>
        /\ rcf.any_error => \E n \in 1..rcf.idx : ~NoTargetJson(n) /\ ErrorsOf(n) # <<>>
        /\ rcf.pc = "done" =>
              /\ rcf.idx = Len(checker._pending_ref_checks)
              /\ (\A n \in 1..rcf.idx : NoTargetJson(n)) =>
                    rcf.logged[Len(rcf.logged)].kind = "refs_ok"

\* C7, its case: the first check refers to B, which has no JSON in the search
\* directories, and drew the warning; the second check, against the sheet's
\* own JSON, was still made and reported a missing reference
C7_Witness ==
    /\ rcf.pc = "done" /\ RunChecksRan
    /\ rcf.idx = 2
    /\ NoTargetJson(1) /\ ~NoTargetJson(2)
    /\ LinesOf(1) # <<>>
    /\ ErrorsOf(2) # <<>>

-----------------------------------------------------------------------------
(* EnumRegistry (enum_registry.py) *)

\* calls made on the registry in a run
MaxCalls == 4

EnumNames == {"Quality", "Slot", "1x"}
\* enum item dicts: item name -> value
EnumItemDicts ==
    {<<[k |-> "Low", v |-> 0]>>,
     <<[k |-> "Low", v |-> 0], [k |-> "High", v |-> 1]>>,
     <<[k |-> "High", v |-> 0], [k |-> "Low", v |-> 1]>>,
     <<[k |-> "Low", v |-> 1]>>}
EnumItemNames == {"Low", "High", "Mid"}
EnumNamespaces == {"Data.TableScript", "Game"}
EnumSources == {"a.xlsx", "b.xlsx/Enum-Quality"}

\* a register_enum under which a second registration with the same item names
\* is accepted and replaces the first
register_enum_same_items_ok(r, enum_name, enum_items, namespace, source) ==
    IF ~is_valid_csharp_identifier(enum_name)
    THEN [r EXCEPT !.result = [NoResult EXCEPT !.op = "register_enum",
                                               !.enum_name = enum_name, !.raised = TRUE]]
    ELSE IF DictHas(r._enums, enum_name)
            /\ DictKeys(DictGet(r._enums, enum_name)) # DictKeys(enum_items)
    THEN [r EXCEPT !.result = [NoResult EXCEPT !.op = "register_enum",
                                               !.enum_name = enum_name, !.raised = TRUE]]
    ELSE [r EXCEPT !._enums = DictSet(@, enum_name, enum_items),
                   !._enum_namespaces = DictSet(@, enum_name, namespace),
                   !._enum_sources = DictSet(@, enum_name, source),
                   !.first = IF DictHas(@, enum_name) THEN @
                             ELSE DictSet(@, enum_name,
                                          [items |-> enum_items, namespace |-> namespace,
                                           source |-> source]),
                   !.result = [NoResult EXCEPT !.op = "register_enum",
                                               !.enum_name = enum_name]]

\* register_enum(enum_name, enum_items, namespace, source) on registry r: an
\* invalid name raises; a registered name raises, whether the item names
\* differ or not; else the three dicts get the entry
register_enum(r, enum_name, enum_items, namespace, source) ==
    IF ~is_valid_csharp_identifier(enum_name)
    THEN [r EXCEPT !.result = [NoResult EXCEPT !.op = "register_enum",
                                               !.enum_name = enum_name, !.raised = TRUE]]
    ELSE IF DictHas(r._enums, enum_name)
    THEN [r EXCEPT !.result = [NoResult EXCEPT !.op = "register_enum",
                                               !.enum_name = enum_name, !.raised = TRUE]]
    ELSE [r EXCEPT !._enums = DictSet(@, enum_name, enum_items),
                   !._enum_namespaces = DictSet(@, enum_name, namespace),
                   !._enum_sources = DictSet(@, enum_name, source),
                   !.first = IF DictHas(@, enum_name) THEN @
                             ELSE DictSet(@, enum_name,
                                          [items |-> enum_items, namespace |-> namespace,
                                           source |-> source]),
                   !.result = [NoResult EXCEPT !.op = "register_enum",
                                               !.enum_name = enum_name]]

\* get_enum_value(enum_name, item_name): an unknown enum or item raises
get_enum_value(r, enum_name, item_name) ==
    LET res == [NoResult EXCEPT !.op = "get_enum_value", !.enum_name = enum_name,
                                !.item_name = item_name]
    IN IF ~DictHas(r._enums, enum_name) THEN [res EXCEPT !.raised = TRUE]
       ELSE IF ~DictHas(DictGet(r._enums, enum_name), item_name)
       THEN [res EXCEPT !.raised = TRUE]
       ELSE [res EXCEPT !.value = DictGet(DictGet(r._enums, enum_name), item_name)]

\* get_enum_items(enum_name): a copy of the items, an unknown enum raises
get_enum_items(r, enum_name) ==
    LET res == [NoResult EXCEPT !.op = "get_enum_items", !.enum_name = enum_name]
    IN IF ~DictHas(r._enums, enum_name) THEN [res EXCEPT !.raised = TRUE]
       ELSE [res EXCEPT !.items = DictGet(r._enums, enum_name)]

RegisterEnum ==
    /\ registry.calls < MaxCalls
    /\ \E enum_name \in EnumNames, enum_items \in EnumItemDicts,
          namespace \in EnumNamespaces, source \in EnumSources :
          registry' = [register_enum(registry, enum_name, enum_items, namespace, source)
                         EXCEPT !.calls = @ + 1]
    /\ UNCHANGED <<sheetVars, batch, call, assets>>

GetEnumValue ==
    /\ registry.calls < MaxCalls
    /\ \E enum_name \in EnumNames, item_name \in EnumItemNames :
          registry' = [registry EXCEPT !.result = get_enum_value(registry, enum_name, item_name),
                                       !.calls = @ + 1]
    /\ UNCHANGED <<sheetVars, batch, call, assets>>

GetEnumItems ==
    /\ registry.calls < MaxCalls
    /\ \E enum_name \in EnumNames :
          registry' = [registry EXCEPT !.result = get_enum_items(registry, enum_name),
                                       !.calls = @ + 1]
    /\ UNCHANGED <<sheetVars, batch, call, assets>>

\* reset_enum_registry(), and get_enum_registry() creating the next instance
ResetEnumRegistry ==
    /\ registry.calls < MaxCalls
    /\ registry' = [IdleRegistry EXCEPT !.calls = registry.calls + 1,
                                        !.result = [NoResult EXCEPT !.op = "reset"]]
    /\ UNCHANGED <<sheetVars, batch, call, assets>>

InitEnum ==
    /\ JSON_ID_FIRST = FALSE
    /\ ws = IdleSheet
    /\ gj = IdleGj
    /\ checker = NewChecker
    /\ rcf = IdleRcf
    /\ disk = EmptyDisk
    /\ log = <<>>
    /\ registry = IdleRegistry
    /\ batch = IdleBatch
    /\ call = IdleCall
    /\ assets = IdleAssets

NextEnum ==
    \/ RegisterEnum
    \/ GetEnumValue
    \/ GetEnumItems
    \/ ResetEnumRegistry

SpecEnum == InitEnum /\ [][NextEnum]_vars

\* C5: register_enum on a registered name raises, whatever the items, and
\* changes none of the three dicts; and at all times a registered name holds
\* the items, namespace and source of its first successful registration, so
\* that a get_enum_value that returns returns the value which that
\* registration gave the item
C5_ReRegistrationRaises ==
    /\ [][(/\ registry'.result.op = "register_enum"
           /\ DictHas(registry._enums, registry'.result.enum_name))
          => /\ registry'.result.raised
             /\ registry'._enums = registry._enums
             /\ registry'._enum_namespaces = registry._enum_namespaces
             /\ registry'._enum_sources = registry._enum_sources]_vars
    /\ [](/\ \A name \in DictKeys(registry._enums) :
                /\ DictHas(registry.first, name)
                /\ DictGet(registry._enums, name) = DictGet(registry.first, name).items
                /\ DictGet(registry._enum_namespaces, name)
                      = DictGet(registry.first, name).namespace
                /\ DictGet(registry._enum_sources, name) = DictGet(registry.first, name).source
          /\ (registry.result.op = "get_enum_value" /\ ~registry.result.raised) =>
                /\ DictHas(registry.first, registry.result.enum_name)
                /\ registry.result.value
                      = DictGet(DictGet(registry.first, registry.result.enum_name).items,
                                registry.result.item_name))

\* C5, its case: Quality was registered as {Low: 0}, and the last call was a
\* register_enum of Quality again, which raised and left the items as they were
C5_Witness ==
    /\ registry.calls >= 2
    /\ registry.result.op = "register_enum"
    /\ registry.result.enum_name = "Quality"
    /\ registry.result.raised
    /\ DictGet(registry._enums, "Quality") = <<[k |-> "Low", v |-> 0]>>
    /\ DictGet(registry.first, "Quality").source = "a.xlsx"

-----------------------------------------------------------------------------
(* batch_excel_to_json and process_excel_file (export_process.py) *)

\* Excel files of a run
MaxFiles == 2

\* naming_config.ENUM_KEYS_SUFFIX appended to a main sheet title, for the
\* titles of the model
EnumKeysName(title) ==
    CASE title = "Item" -> "ItemKeys"
      [] title = "Rank" -> "RankKeys"
      [] title = "Grade" -> "GradeKeys"
      [] OTHER -> "Keys"

\* str[0].isupper() on the names of the model
FirstIsUpper(x) == x \notin {"", "low", "head", "notes.xlsx", "1x", "5"}

\* EnumRegistry.validate_enum_item_name: non-empty, an identifier, upper-case
\* first letter
validate_enum_item_name(item_name) ==
    /\ item_name # ""
    /\ is_valid_csharp_identifier(item_name)
    /\ FirstIsUpper(item_name)

\* an Excel file: its name, whether load_workbook opens it, its main sheet
\* (title, type of column A, the column A cells from row 7 on, the sheet it
\* refers to), its further sheets, and where the data phase raises for it:
\* "none", "construct" (WorksheetData), "json" (generate_json) or "script"
\* (generate_script)
ExcelFile(name, opens, title, first_type, key_items, refs, more_sheets, fails) ==
    [name |-> name, opens |-> opens, title |-> title, first_type |-> first_type,
     key_items |-> key_items, refs |-> refs, more_sheets |-> more_sheets, fails |-> fails]
\* a further sheet: its title without the Enum- tag, and its item names
EnumSheet(name, items) == [tagged |-> TRUE, name |-> name, items |-> items]

ExcelFiles ==
    {ExcelFile("Good.xlsx", TRUE, "Good", "int", <<>>, "", <<>>, "none"),
     ExcelFile("Early.xlsx", TRUE, "Early", "int", <<>>, "Good", <<>>, "none"),
     ExcelFile("notes.xlsx", TRUE, "Notes", "int", <<>>, "", <<>>, "none"),
     ExcelFile("Broken.xlsx", FALSE, "", "", <<>>, "", <<>>, "none"),
     ExcelFile("Bad.xlsx", TRUE, "Bad", "int", <<>>, "", <<>>, "json"),
     ExcelFile("Worse.xlsx", TRUE, "Worse", "int", <<>>, "", <<>>, "script"),
     ExcelFile("Item.xlsx", TRUE, "Item", "string", <<"Sword">>, "", <<>>, "none"),
     ExcelFile("Items.xlsx", TRUE, "Item", "string", <<"Bow", "Sword">>, "", <<>>, "none"),
     ExcelFile("Rank.xlsx", TRUE, "Rank", "str", <<"low">>, "", <<>>, "none"),
     ExcelFile("Grade.xlsx", TRUE, "Grade", "string", <<"1x">>, "", <<>>, "construct"),
     ExcelFile("Equip.xlsx", TRUE, "Equip", "int", <<>>, "",
               <<EnumSheet("ItemKeys", <<"Sword">>)>>, "none"),
     ExcelFile("Slot.xlsx", TRUE, "Slot", "int", <<>>, "",
               <<EnumSheet("Slot", <<"head">>)>>, "none")}

RECURSIVE EnumItemsOf(_, _)
\* the enum items of a list of names: name -> position
EnumItemsOf(names, acc) ==
    IF names = <<>> THEN acc
    ELSE EnumItemsOf(Tail(names), DictSet(acc, Head(names), Len(acc)))

\* phase 1, the string-keyed main sheet of a file: [registry, collected,
\* fault, lines].  Every exception is caught and logged as a warning.
CollectMainSheetEnum(reg, file) ==
    LET enum_type_name == EnumKeysName(file.title)
        enum_items == EnumItemsOf(file.key_items, <<>>)
        invalid == \E n \in 1..Len(file.key_items) :
                      ~validate_enum_item_name(file.key_items[n])
        r == register_enum(reg, enum_type_name, enum_items, "Data.TableScript", "")
        warn == <<LogLine("warn", "enum_collect_error", 0, file.name, file.title, 0)>>
    IN IF file.first_type \notin {"str", "string"} \/ enum_items = <<>>
       THEN [registry |-> reg, collected |-> <<>>, fault |-> "none", lines |-> <<>>]
       ELSE IF invalid
       THEN [registry |-> reg, collected |-> <<>>, fault |-> "invalid_item", lines |-> warn]
       ELSE IF r.result.raised
       THEN [registry |-> r, collected |-> <<>>, fault |-> "duplicate", lines |-> warn]
       ELSE [registry |-> r, collected |-> <<enum_type_name>>, fault |-> "none",
             lines |-> <<>>]

RECURSIVE CollectEnumSheets(_, _, _)
\* phase 1, the Enum- sheets of a file, in order: [registry, collected,
\* fault, raised].  An ExportError is not caught here.
CollectEnumSheets(reg, sheets, collected) ==
    IF sheets = <<>>
    THEN [registry |-> reg, collected |-> collected, fault |-> "none", raised |-> FALSE]
    ELSE LET sheet == Head(sheets)
             enum_items == EnumItemsOf(sheet.items, <<>>)
             invalid == \E n \in 1..Len(sheet.items) : ~validate_enum_item_name(sheet.items[n])
             r == register_enum(reg, sheet.name, enum_items, "Data.TableScript", "")
         IN IF ~sheet.tagged \/ enum_items = <<>>
            THEN CollectEnumSheets(reg, Tail(sheets), collected)
            ELSE IF invalid
            THEN [registry |-> reg, collected |-> collected, fault |-> "invalid_item",
                  raised |-> TRUE]
            ELSE IF r.result.raised
            THEN [registry |-> r, collected |-> collected, fault |-> "duplicate",
                  raised |-> TRUE]
            ELSE CollectEnumSheets(r, Tail(sheets), Append(collected, sheet.name))

\* phase 1 for one file, as CollectEnums runs it: [registry, raised]
CollectOfFile(reg, file, enum_output_folder) ==
    LET m == CollectMainSheetEnum(reg, file)
        e == IF file.more_sheets # <<>> /\ enum_output_folder # ""
             THEN CollectEnumSheets(m.registry, file.more_sheets, <<>>)
             ELSE [registry |-> m.registry, collected |-> <<>>, fault |-> "none",
                   raised |-> FALSE]
    IN IF ~FirstIsUpper(file.name) \/ ~file.opens
       THEN [registry |-> reg, raised |-> FALSE]
       ELSE [registry |-> e.registry, raised |-> e.raised]

RECURSIVE CollectAll(_, _, _)
\* the first loop of batch_excel_to_json over the files in a given order,
\* up to the end or to the file whose Enum- sheet raises
CollectAll(files, reg, enum_output_folder) ==
    IF files = <<>> THEN [registry |-> reg, raised |-> FALSE]
    ELSE LET c == CollectOfFile(reg, Head(files), enum_output_folder)
         IN IF c.raised THEN c ELSE CollectAll(Tail(files), c.registry, enum_output_folder)

\* the sheet variables a batch run leaves alone in this model
batchOther == <<JSON_ID_FIRST, ws, gj, checker, rcf, disk, call, assets>>

\* batch_excel_to_json up to the first loop: reset_enum_registry() and
\* get_enum_registry()
BatchStart ==
    /\ batch.pc = "idle"
    /\ batch' = [batch EXCEPT !.pc = "enum"]
    /\ registry' = IdleRegistry
    /\ UNCHANGED <<batchOther, log>>

\* phase 1, one iteration of `for excel_path in excel_files`
CollectEnums ==
    /\ batch.pc = "enum"
    /\ batch.i < Len(batch.files)
    /\ LET file == batch.files[batch.i + 1]
           m == CollectMainSheetEnum(registry, file)
           e == IF file.more_sheets # <<>> /\ batch.enum_output_folder # ""
                THEN CollectEnumSheets(m.registry, file.more_sheets, <<>>)
                ELSE [registry |-> m.registry, collected |-> <<>>, fault |-> "none",
                      raised |-> FALSE]
           fault == IF m.fault # "none" THEN m.fault ELSE e.fault
       IN IF ~FirstIsUpper(file.name)
          THEN /\ batch' = [batch EXCEPT !.i = @ + 1]
               /\ UNCHANGED <<registry, log>>
          ELSE IF ~file.opens
          THEN /\ batch' = [batch EXCEPT !.i = @ + 1]
               /\ log' = Append(log, LogLine("error", "open_failed", 0, file.name, "", 0))
               /\ UNCHANGED registry
          ELSE /\ registry' = e.registry
               /\ log' = log \o m.lines
               /\ batch' = [batch EXCEPT
                              !.pc = IF e.raised THEN "raised" ELSE "enum",
                              !.i = IF e.raised THEN @ ELSE @ + 1,
                              !.enum_files_to_export = @ \o m.collected \o e.collected,
                              !.enum_fault = IF @ = "none" THEN fault ELSE @]
    /\ UNCHANGED batchOther

\* phase 1, after the loop: the collected enums are exported
ExportEnums ==
    /\ batch.pc = "enum"
    /\ batch.i = Len(batch.files)
    /\ batch' = [batch EXCEPT !.pc = "data", !.i = 0,
                              !.enums_exported = IF batch.enum_output_folder # ""
                                                 THEN batch.enum_files_to_export ELSE <<>>]
    /\ UNCHANGED <<batchOther, registry, log>>

\* a data phase that goes on with the next file after an exception
AfterDataErrorContinue == "data"
\* the except branch of the data phase: log_error and sys.exit(1)
AfterDataError == "exited"

\* process_excel_file for one file: [outcome, exported], the JSON files
\* written before it returned or raised
process_excel_file(b, file) ==
    LET conflict == \E n \in 1..Len(b.file_sheet_map) : b.file_sheet_map[n].v = file.title
        folders == SelectSeq(<<b.output_client_folder, b.output_project_folder>>,
                             LAMBDA d : d # "")
        written == [n \in 1..Len(folders) |-> [title |-> file.title, folder |-> folders[n]]]
    IN IF ~file.opens THEN [outcome |-> "open_failed", exported |-> <<>>]
       ELSE IF conflict \/ file.fails = "construct"
       THEN [outcome |-> "raised", exported |-> <<>>]
       ELSE IF file.fails = "json" /\ folders # <<>>
       THEN [outcome |-> "raised", exported |-> <<>>]
       ELSE IF file.fails = "script"
       THEN [outcome |-> "raised", exported |-> written]
       ELSE [outcome |-> "ok", exported |-> written]

\* phase 2, one iteration of `for excel_path in excel_files`
ProcessExcelFile ==
    /\ batch.pc = "data"
    /\ batch.i < Len(batch.files)
    /\ LET file == batch.files[batch.i + 1]
           res == process_excel_file(batch, file)
       IN IF ~FirstIsUpper(file.name)
          THEN /\ batch' = [batch EXCEPT !.i = @ + 1, !.done = Append(@, "skipped")]
               /\ log' = Append(log, LogLine("warn", "skipped", 0, file.name, "", 0))
          ELSE IF res.outcome = "raised"
          THEN /\ batch' = [batch EXCEPT !.pc = AfterDataError, !.i = @ + 1,
                                         !.done = Append(@, "raised"),
                                         !.exported = @ \o res.exported]
               /\ log' = Append(log, LogLine("error", "file_failed", 0, file.name, "", 0))
          ELSE IF res.outcome = "open_failed"
          THEN /\ batch' = [batch EXCEPT !.i = @ + 1, !.done = Append(@, "open_failed")]
               /\ log' = Append(log, LogLine("error", "open_failed", 0, file.name, "", 0))
          ELSE /\ batch' = [batch EXCEPT
                              !.i = @ + 1, !.done = Append(@, "ok"),
                              !.exported = @ \o res.exported,
                              !.sheets = Append(@, batch.i + 1),
                              !.file_sheet_map = DictSet(@, file.name, file.title)]
               /\ UNCHANGED log
    /\ UNCHANGED <<batchOther, registry>>

\* phase 2, after the loop
DataPhaseDone ==
    /\ batch.pc = "data"
    /\ batch.i = Len(batch.files)
    /\ batch' = [batch EXCEPT !.pc = "refs"]
    /\ UNCHANGED <<batchOther, registry, log>>

\* a reference phase that may run a sheet's checks while files are processed
ReferencePhaseEarly(b) == b.pc \in {"data", "refs"}
\* the reference checks run after the loop of the data phase
ReferencePhase(b) == b.pc = "refs"

\* one iteration of `for ws in sheets: ws.run_reference_checks(search_dirs)`:
\* the JSON files there are when it starts, and whether the sheet's reference
\* was checked against the target's JSON or skipped for want of it
RunReferenceChecks ==
    /\ ReferencePhase(batch)
    /\ batch.r < Len(batch.sheets)
    /\ LET file == batch.files[batch.sheets[batch.r + 1]]
           json_seen == {batch.exported[n].title : n \in 1..Len(batch.exported)}
           outcome == IF file.refs = "" \/ file.title \notin json_seen THEN "none"
                      ELSE IF file.refs \in json_seen THEN "checked"
                      ELSE "skipped_missing"
       IN /\ batch' = [batch EXCEPT
                         !.r = @ + 1,
                         !.ref_checked = Append(@, [file |-> batch.sheets[batch.r + 1],
                                                    sheet |-> file.title,
                                                    json_seen |-> json_seen,
                                                    outcome |-> outcome])]
          /\ log' = IF outcome = "skipped_missing"
                    THEN Append(log, LogLine("warn", "ref_json_missing", FIRST_DATA_ROW,
                                            "target", file.refs, 0))
                    ELSE log
    /\ UNCHANGED <<batchOther, registry>>

\* after the reference checks: cleanup_files if auto_cleanup, and the end
Cleanup ==
    /\ batch.pc = "refs"
    /\ batch.r = Len(batch.sheets)
    /\ batch' = [batch EXCEPT !.pc = "finished", !.cleaned = batch.auto_cleanup]
    /\ UNCHANGED <<batchOther, registry, log>>

\* the registry an earlier run of the process may have left: none, or one
\* holding the enums ItemKeys and Old
StaleRegistries ==
    {IdleRegistry,
     register_enum(register_enum(IdleRegistry, "ItemKeys", <<[k |-> "Axe", v |-> 0]>>,
                                 "Data.TableScript", ""),
                   "Old", <<[k |-> "Low", v |-> 0]>>, "Data.TableScript", "")}

InitBatch ==
    /\ JSON_ID_FIRST = FALSE
    /\ ws = IdleSheet
    /\ gj = IdleGj
    /\ checker = NewChecker
    /\ rcf = IdleRcf
    /\ disk = EmptyDisk
    /\ log = <<>>
    /\ registry \in StaleRegistries
    /\ batch \in {NewBatch(files, client, project, enum_folder, auto_cleanup) :
                    files \in SeqsUpTo(ExcelFiles, MaxFiles),
                    client \in {"client", ""}, project \in {"project", ""},
                    enum_folder \in {"enum", ""}, auto_cleanup \in BOOLEAN}
    /\ call = IdleCall
    /\ assets = IdleAssets

NextBatch ==
    \/ BatchStart
    \/ CollectEnums
    \/ ExportEnums
    \/ ProcessExcelFile
    \/ DataPhaseDone
    \/ RunReferenceChecks
    \/ Cleanup

SpecBatch == InitBatch /\ [][NextBatch]_vars
\* the titles of the sheets whose JSON the run has written
WrittenTitles == {batch.exported[n].title : n \in 1..Len(batch.exported)}

\* C8: when a sheet's run_reference_checks starts, every file of the run has
\* been through the data phase and every JSON the run writes has been written;
\* so a sheet whose JSON was written and which refers to another sheet whose
\* JSON the run writes, later in the order of the files or not, has the
\* reference checked and not skipped as missing
C8_ReferenceChecksAfterAllJson ==
    \A k \in 1..Len(batch.ref_checked) :
        LET e == batch.ref_checked[k]
            file == batch.files[e.file]
        IN /\ batch.pc \in {"refs", "finished"}
           /\ Len(batch.done) = Len(batch.files)
           /\ e.json_seen = WrittenTitles
           /\ (/\ file.refs # ""
               /\ file.title \in WrittenTitles
               /\ file.refs \in WrittenTitles) => e.outcome = "checked"

\* C8, its case: Early.xlsx, which refers to the sheet Good, comes before
\* Good.xlsx, and its reference was checked against the JSON of Good
C8_Witness ==
    /\ Len(batch.files) = 2
    /\ batch.files[1].title = "Early" /\ batch.files[2].title = "Good"
    /\ batch.ref_checked # <<>>
    /\ batch.ref_checked[1].sheet = "Early"
    /\ batch.ref_checked[1].outcome = "checked"

\* C9: a file of the data phase for which process_excel_file raises is the
\* last file processed: the run has exited, ran no reference check and no
\* cleanup, and takes no further step; and a file whose WorksheetData cannot
\* be built is such a file
C9_DataErrorTerminates ==
    /\ [](\A k \in 1..Len(batch.done) :
             /\ batch.done[k] = "raised" =>
                   /\ k = Len(batch.done)
                   /\ batch.pc = "exited"
                   /\ batch.ref_checked = <<>>
                   /\ ~batch.cleaned
             /\ (/\ FirstIsUpper(batch.files[k].name)
                 /\ batch.files[k].opens
                 /\ batch.files[k].fails = "construct") => batch.done[k] = "raised")
    /\ [][batch.pc = "exited" => UNCHANGED vars]_vars

\* C9, its case: the first of two files raised in generate_script, after its
\* JSON was written; the run exited and the second file was not processed
C9_Witness ==
    /\ batch.pc = "exited"
    /\ Len(batch.files) = 2
    /\ batch.done = <<"raised">>
    /\ batch.exported # <<>>
    /\ batch.auto_cleanup

\* C10, as stated: once a duplicate enum definition or an invalid enum item
\* name has been met while the enums are collected, the run does not go on to
\* its end and no sheet data is exported
C10_EnumFaultIsFatal ==
    batch.enum_fault # "none" =>
        /\ batch.exported = <<>>
        /\ batch.pc \notin {"refs", "finished"}

-----------------------------------------------------------------------------
(* Properties of WorksheetData construction *)

\* C11, as stated: construction of a sheet whose six header rows are non-empty
\* never raises for the header, and leaves all six header sequences with the
\* length of the field-name row
C11_HeaderDriftTolerated ==
    (/\ ws.state # "new"
     /\ \A i \in 1..6 : Len(cell_values(ws)[i]) > 0) =>
        /\ ws.error.type # "HeaderFormatError"
        /\ \A i \in 1..6 : Len(cell_values(ws)[i]) = Len(ws.field_names)

\* C12, as stated: a constructed sheet has need_generate_keys set iff the
\* declared type of its key column (the first data column) is str or string
C12_EnumKeyIffStrOrString ==
    (ws.state = "ready" /\ Len(ws.field_names) >= 1) =>
        (ws.need_generate_keys <=> ws.data_types[1] \in {"str", "string"})

\* C13, as stated: no constructed sheet has both need_generate_keys and
\* composite_keys set
C13_KeyStrategiesExclusive ==
    ws.state = "ready" => ~(ws.need_generate_keys /\ ws.composite_keys)

-----------------------------------------------------------------------------
(* Properties of the column loop of generate_json *)

\* the non-ignored columns of data row i whose cell is None
NoneCols(i) ==
    {c \in 1..Len(ws.row_data[i]) :
       /\ c <= Len(ws.field_names)
       /\ ws.data_labels[c] # "ignore"
       /\ ws.row_data[i][c].t = "none"}

\* column c is labelled required and has no default
RequiredNoDefault(c) == ws.data_labels[c] = "required" /\ ws.default_values[c].t = "none"

\* the record generate_json holds for data row i
RecordOfRow(i) == DictGet(gj.data, KeyOfRow(i))

\* C14: a row that generate_json has exported has no None cell in a required
\* column without default, and each of its None cells was exported as
\* convert_to_type(type, default); and when generate_json raised at a row
\* whose key was accepted and whose cells before the first None cell
\* convert, the error is the required-but-empty error naming the field and
\* the row iff that column is required and has no default
C14_NoneCellRequiredOrDefault ==
    /\ gj.pc \in {"rows", "done"} =>
          \A i \in 1..gj.row_idx : \A c \in NoneCols(i) :
              /\ ~RequiredNoDefault(c)
              /\ convert_to_type(ws.data_types[c], ws.default_values[c]).ok
              /\ (_actual_field_name(ws, c) # "id") =>
                    DictGet(RecordOfRow(i), _actual_field_name(ws, c))
                       = convert_to_type(ws.data_types[c], ws.default_values[c]).v
    /\ (gj.pc = "raised" /\ gj.error.type \in {"RuntimeError", "ValueError"}
        /\ RowKey(ws, gj, ws.row_data[gj.row_idx + 1], FIRST_DATA_ROW + gj.row_idx).error
              = NoError
        /\ NoneCols(gj.row_idx + 1) # {}
        /\ \A c \in NoneCols(gj.row_idx + 1) : c > 1) =>
          LET i == gj.row_idx + 1
              c == CHOOSE c \in NoneCols(i) : \A d \in NoneCols(i) : c <= d
              before == {b \in 2..(c - 1) : ws.data_labels[b] # "ignore"}
          IN (\A b \in before : convert_to_type(ws.data_types[b], ws.row_data[i][b]).ok) =>
                (RequiredNoDefault(c)
                   <=> gj.error = RuntimeError(_actual_field_name(ws, c),
                                               FIRST_DATA_ROW + gj.row_idx))

\* C14, its cases: a row whose None cell was exported as the converted
\* default 5, after which a second row was exported
C14_Witness ==
    /\ gj.pc = "done"
    /\ Len(ws.row_data) = 2
    /\ ws.row_data[1][2] = NoneV
    /\ ws.default_values[2] = IntV(5)
    /\ ws.data_types[2] = "list(int)"
    /\ DictGet(RecordOfRow(1), "val") = ListV(<<IntV(5)>>)

-----------------------------------------------------------------------------
(* Primitive conversion with the C# range check (_convert_primitive and    *)
(* _check_csharp_primitive_range), in parsing/data_processing.py (warns)   *)
(* and in data_processing.py (raises).  A Python int that may exceed 32    *)
(* bits is [neg, digits]: its sign and the decimal digits of its           *)
(* magnitude, most significant first, <<>> for 0.                          *)

BigInt(neg, digits) == [neg |-> neg, digits |-> digits]

RECURSIVE DigitsOf(_)
\* the decimal digits of a natural number
DigitsOf(n) == IF n = 0 THEN <<>> ELSE Append(DigitsOf(n \div 10), n % 10)

\* the int of a Python int of the model
BigOfInt(n) == IF n < 0 THEN BigInt(TRUE, DigitsOf(0 - n)) ELSE BigInt(FALSE, DigitsOf(n))

\* the decimal strings converted as int, and what int(str) makes of them
\* (surrounding blanks are stripped); on every other string int() raises
IntTexts == {"5", "-5", " 7 ", "2147483647", "2147483648", "-2147483648", "-2147483649",
             "99999999999"}
IntOfText(x) ==
    CASE x = "5" -> BigInt(FALSE, <<5>>)
      [] x = "-5" -> BigInt(TRUE, <<5>>)
      [] x = " 7 " -> BigInt(FALSE, <<7>>)
      [] x = "2147483647" -> BigInt(FALSE, <<2, 1, 4, 7, 4, 8, 3, 6, 4, 7>>)
      [] x = "2147483648" -> BigInt(FALSE, <<2, 1, 4, 7, 4, 8, 3, 6, 4, 8>>)
      [] x = "-2147483648" -> BigInt(TRUE, <<2, 1, 4, 7, 4, 8, 3, 6, 4, 8>>)
      [] x = "-2147483649" -> BigInt(TRUE, <<2, 1, 4, 7, 4, 8, 3, 6, 4, 9>>)
      [] x = "99999999999" -> BigInt(FALSE, <<9, 9, 9, 9, 9, 9, 9, 9, 9, 9, 9>>)
      [] OTHER -> BigInt(FALSE, <<>>)

\* int(value) of the `int` converter: [ok, big]
BigPyInt(value) ==
    CASE value.t \in {"int", "bool"} -> [ok |-> TRUE, big |-> BigOfInt(value.n)]
      [] value.t = "string" -> [ok |-> value.s \in IntTexts, big |-> IntOfText(value.s)]
      [] OTHER -> [ok |-> FALSE, big |-> BigOfInt(0)]

RECURSIVE DigitsGreater(_, _)
\* a > b for the magnitudes of two digit sequences
DigitsGreater(a, b) ==
    IF Len(a) # Len(b) THEN Len(a) > Len(b)
    ELSE IF a = <<>> THEN FALSE
    ELSE IF Head(a) # Head(b) THEN Head(a) > Head(b)
    ELSE DigitsGreater(Tail(a), Tail(b))

\* the magnitude of -2147483648
INT32_MIN_DIGITS == <<2, 1, 4, 7, 4, 8, 3, 6, 4, 8>>

\* a range test that takes every int of 10 digits or less as in range
OutOfIntRange_10_digits(big) == Len(big.digits) > 10
\* `ival < -2147483648 or ival > 2147483647`
OutOfIntRange(big) ==
    IF big.neg THEN DigitsGreater(big.digits, INT32_MIN_DIGITS)
    ELSE DigitsGreater(big.digits, DigitsOf(INT32_MAX))

\* _check_csharp_primitive_range for int, parsing/data_processing.py: a value
\* out of range is logged as a warning: [raised, warnings]
_check_csharp_primitive_range(type_str, big) ==
    IF type_str = "int" /\ OutOfIntRange(big)
    THEN [raised |-> FALSE, warnings |-> 1]
    ELSE [raised |-> FALSE, warnings |-> 0]

\* _check_csharp_primitive_range for int, data_processing.py: a value out of
\* range raises ValueError
_check_csharp_primitive_range_strict(type_str, big) ==
    IF type_str = "int" /\ OutOfIntRange(big)
    THEN [raised |-> TRUE, warnings |-> 0]
    ELSE [raised |-> FALSE, warnings |-> 0]

\* the policies: the module whose _convert_primitive is called
Policies == {"lenient", "strict"}

\* _convert_primitive("int", value) under a policy: None converts as int(0),
\* a value int() rejects raises, then the range check: [ok, big, warnings]
_convert_primitive_int(policy, value) ==
    LET c == IF value.t = "none" THEN [ok |-> TRUE, big |-> BigOfInt(0)] ELSE BigPyInt(value)
        r == IF policy = "strict" THEN _check_csharp_primitive_range_strict("int", c.big)
             ELSE _check_csharp_primitive_range("int", c.big)
    IN IF ~c.ok THEN [ok |-> FALSE, big |-> BigOfInt(0), warnings |-> 0]
       ELSE IF r.raised THEN [ok |-> FALSE, big |-> BigOfInt(0), warnings |-> 0]
       ELSE [ok |-> TRUE, big |-> c.big, warnings |-> r.warnings]

\* the values converted as int
IntInputs == {StrV(x) : x \in IntTexts \cup {"x", ""}} \cup {IntV(5), IntV(0 - 5), NoneV}

\* convert_to_type("int", value) of either module
ConvertIntCalls == {PendingCall("convert_int", <<policy, value>>) :
                       policy \in Policies, value \in IntInputs}
ConvertInt ==
    /\ call.op = "convert_int" /\ ~call.done
    /\ LET r == _convert_primitive_int(call.args[1], call.args[2])
       IN call' = Returned(call, r.ok, r.big, r.warnings)
    /\ UNCHANGED <<sheetVars, batch, registry, assets>>


-----------------------------------------------------------------------------
(* The asset index (AssetValidator._build_index, exists_base_name).  File  *)
(* names are sequences of one-character strings, so that lower(), strip(), *)
(* splitext() and endswith() are computed on the characters.               *)

\* str.lower() of one character, for the characters of the model
LowerChar(c) ==
    CASE c = "H" -> "h" [] c = "E" -> "e" [] c = "R" -> "r" [] c = "O" -> "o"
      [] c = "P" -> "p" [] c = "N" -> "n" [] c = "G" -> "g" [] c = "J" -> "j"
      [] OTHER -> c

\* str.lower()
lower(s) == [i \in 1..Len(s) |-> LowerChar(s[i])]

RECURSIVE lstrip(_, _)
\* str.lstrip(chars)
lstrip(s, chars) == IF s # <<>> /\ Head(s) \in chars THEN lstrip(Tail(s), chars) ELSE s

RECURSIVE rstrip(_, _)
\* str.rstrip(chars)
rstrip(s, chars) ==
    IF s # <<>> /\ s[Len(s)] \in chars THEN rstrip(SubSeq(s, 1, Len(s) - 1), chars) ELSE s

\* str.strip()
strip(s) == rstrip(lstrip(s, {" "}), {" "})

\* str.endswith(suffix)
endswith(s, suffix) ==
    Len(s) >= Len(suffix) /\ SubSeq(s, Len(s) - Len(suffix) + 1, Len(s)) = suffix

\* os.path.splitext: the extension starts at the last dot that has a
\* character other than a dot before it; <<base, ext>>
splitext(fn) ==
    LET dots == {i \in 1..Len(fn) : fn[i] = "." /\ \E k \in 1..(i - 1) : fn[k] # "."}
        last == CHOOSE i \in dots : \A k \in dots : k <= i
    IN IF dots = {} THEN <<fn, <<>>>>
       ELSE <<SubSeq(fn, 1, last - 1), SubSeq(fn, last, Len(fn))>>

\* _AssetEntry(base, ext) under its index key
_AssetEntry(key, base, ext) == [key |-> key, base |-> base, ext |-> ext]

\* _build_index: one entry per file but the .meta files, under the key
\* base.lower(), with the extension lowercased and without its dot
_build_index(filenames) ==
    {_AssetEntry(lower(splitext(fn)[1]), splitext(fn)[1],
                 IF splitext(fn)[2] # <<>> THEN lower(Tail(splitext(fn)[2])) ELSE <<>>) :
        fn \in {f \in filenames : ~endswith(f, <<".", "m", "e", "t", "a">>)}}

\* an extension test that does not fold the case of required_ext
ext_matches_case_sensitive(e, required_ext) == e.ext = lstrip(strip(required_ext), {"."})
\* `e.ext == req` with req = required_ext.strip().lstrip(".").lower()
ext_matches(e, required_ext) == e.ext = lower(lstrip(strip(required_ext), {"."}))

\* the absent required extension
NoExt == <<"None">>

\* exists_base_name(base_name, required_ext) on an index
exists_base_name(index, base_name, required_ext) ==
    LET key == strip(lower(base_name))
        cand == {e \in index : e.key = key}
    IN IF index = {} THEN FALSE
       ELSE IF cand = {} THEN FALSE
       ELSE IF required_ext # NoExt /\ required_ext # <<>>
       THEN \E e \in cand : e.base = base_name /\ ext_matches(e, required_ext)
       ELSE \E e \in cand : e.base = base_name

\* the files under the collector roots
AssetFiles ==
    { <<"H", "e", "r", "o", ".", "p", "n", "g">>,
      <<"H", "e", "r", "o", ".", "P", "N", "G">>,
      <<"h", "e", "r", "o", ".", "p", "n", "g">>,
      <<"H", "e", "r", "o", ".", "j", "p", "g">>,
      <<"H", "e", "r", "o", ".", "j", "p", "g", ".", "m", "e", "t", "a">>,
      <<"H", "e", "r", "o">> }

\* the file names looked up (stripped, as _check_one_filename passes them)
AssetNames == {<<"H", "e", "r", "o">>, <<"h", "e", "r", "o">>, <<"H", "E", "R", "O">>}

\* the required extensions: none, or what parse_asset_prefix leaves of
\* [Asset:ext], and the spelling "PNG"
AssetExts == {NoExt, <<"p", "n", "g">>, <<"P", "N", "G">>, <<"j", "p", "g">>}

\* exists_base_name on the index built of some files
ExistsBaseNameCalls ==
    {PendingCall("exists_base_name", <<files, base_name, required_ext>>) :
        files \in SUBSET AssetFiles, base_name \in AssetNames, required_ext \in AssetExts}
ExistsBaseName ==
    /\ call.op = "exists_base_name" /\ ~call.done
    /\ call' = Returned(call, TRUE,
                        BoolV(exists_base_name(_build_index(call.args[1]), call.args[2],
                                               call.args[3])), 0)
    /\ UNCHANGED <<sheetVars, batch, registry, assets>>

-----------------------------------------------------------------------------
(* Enum conversion (_convert_enum in parsing/data_processing.py)           *)

\* str.strip() on the cell texts of the model
StripText(x) ==
    CASE x = " Low " -> "Low"
      [] x = " " -> ""
      [] OTHER -> x

\* EnumRegistry.has_enum
has_enum(r, enum_name) == DictHas(r._enums, enum_name)

\* a _convert_enum that looks the item up without testing its format
_convert_enum_no_format_check(r, enum_name, value) ==
    IF ~has_enum(r, enum_name) THEN ConvFail
    ELSE IF value.t = "none" \/ (value.t = "string" /\ StripText(value.s) = "") THEN ConvFail
    ELSE LET got == get_enum_value(r, enum_name, StripText(PyStr(value)))
         IN IF got.raised THEN ConvFail ELSE ConvOk(IntV(got.value))

\* _convert_enum(enum_name, value): an unregistered enum raises; None or a
\* blank string raises; item_name = str(value).strip(); a name that fails
\* validate_enum_item_name raises; then get_enum_value, whose error is
\* re-raised with the position
_convert_enum(r, enum_name, value) ==
    IF ~has_enum(r, enum_name) THEN ConvFail
    ELSE IF value.t = "none" \/ (value.t = "string" /\ StripText(value.s) = "") THEN ConvFail
    ELSE LET item_name == StripText(PyStr(value))
             got == get_enum_value(r, enum_name, item_name)
         IN IF ~validate_enum_item_name(item_name) THEN ConvFail
            ELSE IF got.raised THEN ConvFail
            ELSE ConvOk(IntV(got.value))

\* the registries a conversion runs against: empty, or Quality registered
\* with one of the item dicts (register_enum does not test the item names)
EnumRegistries ==
    {IdleRegistry} \cup
    {register_enum(IdleRegistry, "Quality", enum_items, "Game", "a.xlsx") :
        enum_items \in EnumItemDicts \cup {<<[k |-> "low", v |-> 0], [k |-> "True", v |-> 1]>>}}

\* the cell values converted as an enum
EnumCellValues ==
    {StrV(x) : x \in {"Low", "High", "Mid", "low", " Low ", "", " ", "1x"}}
        \cup {NoneV, IntV(5), BoolV(TRUE)}

\* convert_to_type("enum(<enum_name>)", value)
ConvertEnumCalls ==
    {PendingCall("convert_enum", <<enum_name, value>>) :
        enum_name \in {"Quality", "Slot"}, value \in EnumCellValues}
ConvertEnum ==
    /\ call.op = "convert_enum" /\ ~call.done
    /\ LET r == _convert_enum(registry, call.args[1], call.args[2])
       IN call' = Returned(call, r.ok, IF r.ok THEN r.v ELSE NoneV, 0)
    /\ UNCHANGED <<sheetVars, batch, registry, assets>>

-----------------------------------------------------------------------------
(* Nested conversion (_convert_dict, _convert_list, _convert_with_check,   *)
(* _convert_dict_enum in parsing/data_processing.py).  A type string and a *)
(* cell text are sequences of tokens (names, numbers, the parentheses, the *)
(* comma, the colon and the line break), so that the search for the        *)
(* parenthesised part, the split on commas, splitlines and the split on    *)
(* the first colon are computed on them.  The texts hold no blanks, so the *)
(* strip calls leave them as they are.                                     *)

\* "".join(tokens): the text a token sequence stands for
RECURSIVE JoinTokens(_)
JoinTokens(toks) == IF toks = <<>> THEN "" ELSE Head(toks) \o JoinTokens(Tail(toks))

\* the positions of a token
PositionsOf(toks, tok) == {i \in 1..Len(toks) : toks[i] = tok}

\* str.split(sep): the pieces between the separators
RECURSIVE SplitOn(_, _)
SplitOn(toks, sep) ==
    IF PositionsOf(toks, sep) = {} THEN <<toks>>
    ELSE LET i == CHOOSE i \in PositionsOf(toks, sep) : \A j \in PositionsOf(toks, sep) : i <= j
         IN <<SubSeq(toks, 1, i - 1)>> \o SplitOn(SubSeq(toks, i + 1, Len(toks)), sep)

\* str.split(sep, 1) of a text holding sep: before and after the first one
SplitFirst(toks, sep) ==
    LET i == CHOOSE i \in PositionsOf(toks, sep) : \A j \in PositionsOf(toks, sep) : i <= j
    IN <<SubSeq(toks, 1, i - 1), SubSeq(toks, i + 1, Len(toks))>>

\* str.splitlines()
splitlines(toks) == IF toks = <<>> THEN <<>> ELSE SplitOn(toks, "\n")

\* the re.search of _convert_dict and _convert_list for the parenthesised
\* part of type_str: [ok, inner], inner the text between the first opening
\* and the last closing parenthesis
TypeMatch(type_str) ==
    LET opens == PositionsOf(type_str, "(")
        first == CHOOSE i \in opens : \A j \in opens : i <= j
        closes == {i \in PositionsOf(type_str, ")") : i > first}
        last == CHOOSE i \in closes : \A j \in closes : j <= i
    IN IF opens = {} \/ closes = {} THEN [ok |-> FALSE, inner |-> <<>>]
       ELSE [ok |-> TRUE, inner |-> SubSeq(type_str, first + 1, last - 1)]

\* the re.match of an enum type, enum followed by a parenthesised name:
\* [ok, enum_name]
EnumMatch(type_str) ==
    IF Len(type_str) = 4 /\ type_str[1] = "enum" /\ type_str[2] = "(" /\ type_str[3] # ")"
       /\ type_str[4] = ")"
    THEN [ok |-> TRUE, enum_name |-> type_str[3]]
    ELSE [ok |-> FALSE, enum_name |-> ""]

\* the keys of PRIMITIVE_TYPE_MAPPING the model converts with
PrimitiveTokens == {"int", "str", "string"}

\* PRIMITIVE_TYPE_MAPPING.get(type, str)(text): int parses, every other
\* converter of the model is str
PrimitiveOfTokens(type_tok, toks) ==
    IF type_tok = "int"
    THEN (IF PyInt(StrV(JoinTokens(toks))).ok
          THEN ConvOk(IntV(PyInt(StrV(JoinTokens(toks))).v)) ELSE ConvFail)
    ELSE ConvOk(StrV(JoinTokens(toks)))

\* `key_type_str, value_type_str = map(str.strip, inner.split(","))`: the
\* unpacking raises ValueError unless the split gives two parts
KeyValueTypes(inner) ==
    IF Len(SplitOn(inner, ",")) # 2 THEN [ok |-> FALSE, key |-> <<>>, value |-> <<>>]
    ELSE [ok |-> TRUE, key |-> SplitOn(inner, ",")[1], value |-> SplitOn(inner, ",")[2]]

RECURSIVE _convert_with_check_tok(_, _, _)
RECURSIVE _convert_list_tok(_, _, _)
RECURSIVE _convert_dict_tok(_, _, _)
RECURSIVE ConvertListParts(_, _, _, _)
RECURSIVE ConvertDictLines(_, _, _, _, _)

\* _convert_with_check(type_str, value) on a text: primitive, list, dict,
\* enum, else the value as it is
_convert_with_check_tok(r, type_str, toks) ==
    IF Len(type_str) = 1 /\ type_str[1] \in PrimitiveTokens
    THEN PrimitiveOfTokens(type_str[1], toks)
    ELSE IF type_str # <<>> /\ Head(type_str) = "list" THEN _convert_list_tok(r, type_str, toks)
    ELSE IF type_str # <<>> /\ Head(type_str) = "dict" THEN _convert_dict_tok(r, type_str, toks)
    ELSE IF EnumMatch(type_str).ok
    THEN _convert_enum(r, EnumMatch(type_str).enum_name, StrV(JoinTokens(toks)))
    ELSE ConvOk(StrV(JoinTokens(toks)))

\* the loop of _convert_list over value.split(","): empty parts are skipped
ConvertListParts(r, element_type_str, parts, acc) ==
    IF parts = <<>> THEN ConvOk(ListV(acc))
    ELSE IF Head(parts) = <<>> THEN ConvertListParts(r, element_type_str, Tail(parts), acc)
    ELSE LET v == _convert_with_check_tok(r, element_type_str, Head(parts))
         IN IF v.ok THEN ConvertListParts(r, element_type_str, Tail(parts), Append(acc, v.v))
            ELSE ConvFail

\* _convert_list(type_str, value) on a text
_convert_list_tok(r, type_str, toks) ==
    IF ~TypeMatch(type_str).ok THEN ConvOk(ListV(<<>>))
    ELSE ConvertListParts(r, TypeMatch(type_str).inner, SplitOn(toks, ","), <<>>)

\* the loop of _convert_dict over str(value).splitlines(): a line without
\* ":" is skipped, result[k] = v
ConvertDictLines(r, key_type_str, value_type_str, lines, acc) ==
    IF lines = <<>> THEN ConvOk(DictV(acc))
    ELSE IF PositionsOf(Head(lines), ":") = {}
    THEN ConvertDictLines(r, key_type_str, value_type_str, Tail(lines), acc)
    ELSE LET kv == SplitFirst(Head(lines), ":")
             k == PrimitiveOfTokens(IF Len(key_type_str) = 1 THEN key_type_str[1] ELSE "str",
                                    kv[1])
             v == _convert_with_check_tok(r, value_type_str, kv[2])
         IN IF k.ok /\ v.ok
            THEN ConvertDictLines(r, key_type_str, value_type_str, Tail(lines),
                                  DictSet(acc, k.v, v.v))
            ELSE ConvFail

\* _convert_dict(type_str, value) on a text
_convert_dict_tok(r, type_str, toks) ==
    IF ~TypeMatch(type_str).ok THEN ConvOk(DictV(<<>>))
    ELSE LET types == KeyValueTypes(TypeMatch(type_str).inner)
         IN IF ~types.ok THEN ConvFail
            ELSE ConvertDictLines(r, types.key, types.value, splitlines(toks), <<>>)

\* _convert_dict_enum(type_str, enum_name, value) on a text: the dict loop
\* with every value converted by _convert_enum
_convert_dict_enum_tok(r, type_str, enum_name, toks) ==
    IF ~TypeMatch(type_str).ok THEN ConvOk(DictV(<<>>))
    ELSE LET types == KeyValueTypes(TypeMatch(type_str).inner)
         IN IF ~types.ok THEN ConvFail
            ELSE ConvertDictLines(r, types.key, <<"enum", "(", enum_name, ")">>,
                                  splitlines(toks), <<>>)

\* parse_type_annotation of a dict type: the value type is what follows the
\* first comma; ("dict", "enum(Name)") when that is an enum, else ("dict", None)
DictValueEnum(type_str) ==
    LET m == TypeMatch(type_str)
    IN IF m.ok /\ PositionsOf(m.inner, ",") # {}
       THEN EnumMatch(SplitFirst(m.inner, ",")[2])
       ELSE [ok |-> FALSE, enum_name |-> ""]

\* a cell holding a text, and the empty cell (None)
CellText(toks) == [none |-> FALSE, toks |-> toks]
NoCell == [none |-> TRUE, toks |-> <<>>]

\* convert_to_type(type_str, value) for a dict type: a dict of enums goes to
\* _convert_dict_enum, any other to _convert_dict; both return {} for None
convert_to_type_dict(r, type_str, value) ==
    IF DictValueEnum(type_str).ok
    THEN (IF value.none THEN ConvOk(DictV(<<>>))
          ELSE _convert_dict_enum_tok(r, type_str, DictValueEnum(type_str).enum_name,
                                      value.toks))
    ELSE IF value.none THEN ConvOk(DictV(<<>>))
    ELSE _convert_dict_tok(r, type_str, value.toks)

\* the dict types converted
DictIntString == <<"dict", "(", "int", ",", "string", ")">>
DictIntListInt == <<"dict", "(", "int", ",", "list", "(", "int", ")", ")">>
DictIntDictIntString ==
    <<"dict", "(", "int", ",", "dict", "(", "int", ",", "string", ")", ")">>
DictIntEnumQuality == <<"dict", "(", "int", ",", "enum", "(", "Quality", ")", ")">>
DictTypes == {DictIntString, DictIntListInt, DictIntDictIntString, DictIntEnumQuality}

\* the cell texts converted as a dict, and None
DictCellTexts ==
    { <<"1", ":", "a", "\n", "2", ":", "b">>,
      <<"1", ":", "a", "\n", "x", "\n", "2", ":", "b">>,
      <<"1", ":", "5", ",", "6", "\n", "2", ":", "6">>,
      <<"1", ":", "2", ":", "a">>,
      <<"1", ":", "Low", "\n", "2", ":", "High">>,
      <<"x">>,
      <<>> }

\* convert_to_type(<dict type>, value)
ConvertDictCalls ==
    {PendingCall("convert_dict", <<type_str, value>>) :
        type_str \in DictTypes, value \in {CellText(toks) : toks \in DictCellTexts} \cup {NoCell}}
ConvertDict ==
    /\ call.op = "convert_dict" /\ ~call.done
    /\ LET r == convert_to_type_dict(registry, call.args[1], call.args[2])
       IN call' = Returned(call, r.ok, IF r.ok THEN r.v ELSE NoneV, 0)
    /\ UNCHANGED <<sheetVars, batch, registry, assets>>

-----------------------------------------------------------------------------
(* validate_type_annotation (utils/type_utils.py)                          *)

\* str.count(ch)
count(s, ch) == Cardinality(PositionsOf(s, ch))

RECURSIVE DepthScan(_, _, _, _)
\* the loop over the characters: [order_ok, max_depth]; the loop returns as
\* soon as the depth falls below zero
DepthScan(s, idx, depth, max_depth) ==
    IF idx > Len(s) THEN [order_ok |-> TRUE, max_depth |-> max_depth]
    ELSE LET d == CASE s[idx] = "(" -> depth + 1
                    [] s[idx] = ")" -> depth - 1
                    [] OTHER -> depth
             m == IF s[idx] = "(" /\ d > max_depth THEN d ELSE max_depth
         IN IF d < 0 THEN [order_ok |-> FALSE, max_depth |-> m]
            ELSE DepthScan(s, idx + 1, d, m)

\* a depth test that allows a fourth level
too_deep_above_four(max_depth) == max_depth > 4
\* `max_depth > 3`
too_deep(max_depth) == max_depth > 3

\* the (valid, message) pair validate_type_annotation returns
Verdict(valid, msg) == ListV(<<BoolV(valid), StrV(msg)>>)

\* validate_type_annotation(type_str); value.str says that the argument is
\* a string
validate_type_annotation(value) ==
    LET type_str == strip(value.toks)
        scan == DepthScan(type_str, 1, 0, 0)
    IN IF ~value.str \/ value.toks = <<>> THEN Verdict(FALSE, "empty or not a string")
       ELSE IF type_str = <<>> THEN Verdict(FALSE, "empty")
       ELSE IF count(type_str, "(") # count(type_str, ")")
       THEN Verdict(FALSE, "bracket mismatch")
       ELSE IF ~scan.order_ok THEN Verdict(FALSE, "bracket order")
       ELSE IF too_deep(scan.max_depth) THEN Verdict(FALSE, "too deep")
       ELSE IF Head(type_str) = "," \/ type_str[Len(type_str)] = ","
       THEN Verdict(FALSE, "comma at an end")
       ELSE IF \E i \in 1..(Len(type_str) - 1) : type_str[i] = "," /\ type_str[i + 1] = ","
       THEN Verdict(FALSE, "doubled comma")
       ELSE Verdict(TRUE, "")

\* lengths of the type strings: any text of up to MaxTypeLen characters, and
\* texts of brackets alone of up to MaxBracketLen characters
MaxTypeLen == 5
MaxBracketLen == 8
TypeTexts ==
    SeqsUpTo({"(", ")", ",", "a"}, MaxTypeLen) \cup SeqsUpTo({"(", ")"}, MaxBracketLen)
\* a string argument, with blanks around the text or without, and an
\* argument that is no string (None, a number)
TypeArg(toks) == [str |-> TRUE, toks |-> toks]
NotAString == [str |-> FALSE, toks |-> <<>>]
ValidateTypeCalls ==
    {PendingCall("validate_type_annotation", <<v>>) :
        v \in {TypeArg(lead \o toks \o trail) :
                  lead \in {<<>>, <<" ">>}, trail \in {<<>>, <<" ">>}, toks \in TypeTexts}
              \cup {NotAString}}
ValidateTypeAnnotation ==
    /\ call.op = "validate_type_annotation" /\ ~call.done
    /\ call' = Returned(call, TRUE, validate_type_annotation(call.args[1]), 0)
    /\ UNCHANGED <<sheetVars, batch, registry, assets>>

\* one call of a conversion or of the asset index is about to run
InitCall ==
    /\ JSON_ID_FIRST = FALSE
    /\ ws = IdleSheet
    /\ gj = IdleGj
    /\ checker = NewChecker
    /\ rcf = IdleRcf
    /\ disk = EmptyDisk
    /\ log = <<>>
    /\ batch = IdleBatch
    /\ \/ /\ call \in ConvertIntCalls \cup ExistsBaseNameCalls
          /\ registry = IdleRegistry
       \/ /\ call \in ValidateTypeCalls
          /\ registry = IdleRegistry
       \/ /\ call \in ConvertEnumCalls \cup ConvertDictCalls
          /\ registry \in EnumRegistries
    /\ assets = IdleAssets

NextCall ==
    \/ ConvertInt
    \/ ExistsBaseName
    \/ ConvertEnum
    \/ ConvertDict
    \/ ValidateTypeAnnotation

SpecCall == InitCall /\ [][NextCall]_vars

-----------------------------------------------------------------------------
(* Properties of the primitive range check                                 *)

\* the converted texts that denote an int outside [-2147483648, 2147483647]
OutOfRangeTexts == {"2147483648", "-2147483649", "99999999999"}

\* the converted values that denote an int of the range
InRangeInputs == {StrV(x) : x \in IntTexts \ OutOfRangeTexts} \cup {IntV(5), IntV(0 - 5), NoneV}

-----------------------------------------------------------------------------
(* Properties of the asset index                                           *)

HeroPng == <<"H", "e", "r", "o", ".", "p", "n", "g">>

\* what a file of AssetFiles is: its base name, its extension in lower case
\* and whether it is a metadata file
AssetFacts(fn) ==
    CASE fn = HeroPng ->
            [base |-> <<"H", "e", "r", "o">>, ext |-> <<"p", "n", "g">>, meta |-> FALSE]
      [] fn = <<"H", "e", "r", "o", ".", "P", "N", "G">> ->
            [base |-> <<"H", "e", "r", "o">>, ext |-> <<"p", "n", "g">>, meta |-> FALSE]
      [] fn = <<"h", "e", "r", "o", ".", "p", "n", "g">> ->
            [base |-> <<"h", "e", "r", "o">>, ext |-> <<"p", "n", "g">>, meta |-> FALSE]
      [] fn = <<"H", "e", "r", "o", ".", "j", "p", "g">> ->
            [base |-> <<"H", "e", "r", "o">>, ext |-> <<"j", "p", "g">>, meta |-> FALSE]
      [] fn = <<"H", "e", "r", "o", ".", "j", "p", "g", ".", "m", "e", "t", "a">> ->
            [base |-> <<"H", "e", "r", "o", ".", "j", "p", "g">>, ext |-> <<"m", "e", "t", "a">>,
             meta |-> TRUE]
      [] OTHER -> [base |-> fn, ext |-> <<>>, meta |-> FALSE]

\* the required extension in lower case
ExtFolded(required_ext) ==
    IF required_ext = <<"P", "N", "G">> THEN <<"p", "n", "g">> ELSE required_ext

\* C16: exists_base_name(name, required_ext) is true iff the index holds a
\* non-metadata file whose base name equals name exactly and, when
\* required_ext is given, whose extension equals it ignoring case; with only
\* Hero.png indexed, ("Hero","png"), ("Hero","PNG") and ("Hero",None) are true,
\* ("hero","png") and ("Hero","jpg") are false.
C16_ExactBaseFoldedExt ==
    (call.op = "exists_base_name" /\ call.done) =>
        LET files == call.args[1]
            name == call.args[2]
            required_ext == call.args[3]
        IN /\ call.v = BoolV(\E fn \in files :
                                /\ ~AssetFacts(fn).meta
                                /\ AssetFacts(fn).base = name
                                /\ required_ext # NoExt =>
                                       AssetFacts(fn).ext = ExtFolded(required_ext))
           /\ files = {HeroPng} =>
                 call.v = BoolV(/\ name = <<"H", "e", "r", "o">>
                                /\ required_ext \in {NoExt, <<"p", "n", "g">>, <<"P", "N", "G">>})

\* ("Hero", "PNG") was looked up in the index of Hero.png alone, and found
C16_Witness ==
    /\ call.op = "exists_base_name" /\ call.done
    /\ call.args = <<{HeroPng}, <<"H", "e", "r", "o">>, <<"P", "N", "G">>>>
    /\ call.v = BoolV(TRUE)

-----------------------------------------------------------------------------
(* Properties of the enum conversion                                       *)

\* the cell texts of the model that satisfy the upper-camel identifier rule
UpperCamelTexts == {"Low", "High", "Mid", "True"}

\* the items of the enum the call names, <<>> when it is not registered
ItemsOfCall ==
    IF DictHas(registry._enums, call.args[1]) THEN DictGet(registry._enums, call.args[1])
    ELSE <<>>

\* the value of the call as _convert_enum looks it up: str(value).strip()
ItemTextOfCall == StripText(PyStr(call.args[2]))

\* C17 (as stated): enum conversion returns the registered integer iff the
\* enum is registered and the value is a non-empty string that satisfies the
\* upper-camel rule and equals a registered item name exactly.
C17_ExactStringOnly ==
    (call.op = "convert_enum" /\ call.done) =>
        (call.ok <=> /\ DictHas(registry._enums, call.args[1])
                     /\ call.args[2].t = "string"
                     /\ call.args[2].s \in UpperCamelTexts
                     /\ DictHas(ItemsOfCall, call.args[2].s))

\* C17 (amended): enum conversion returns the registered integer of an item
\* iff the enum is registered and the value, converted to a string and
\* stripped of surrounding blanks, is non-empty, satisfies the upper-camel
\* rule and equals a registered item name case-sensitively; in each other
\* case it raises and returns no value.
C17_StrippedTextLookup ==
    (call.op = "convert_enum" /\ call.done) =>
        /\ call.ok <=> /\ DictHas(registry._enums, call.args[1])
                       /\ call.args[2] # NoneV
                       /\ ItemTextOfCall \in UpperCamelTexts
                       /\ DictHas(ItemsOfCall, ItemTextOfCall)
        /\ call.ok => call.v = IntV(DictGet(ItemsOfCall, ItemTextOfCall))
        /\ ~call.ok => call.v = NoneV

\* " Low " was converted against Quality = {High: 0, Low: 1} and gave 1
C17_Witness ==
    /\ call.op = "convert_enum" /\ call.done
    /\ call.args = <<"Quality", StrV(" Low ")>>
    /\ DictHas(registry._enums, "Quality")
    /\ DictGet(registry._enums, "Quality") = <<[k |-> "High", v |-> 0], [k |-> "Low", v |-> 1]>>
    /\ call.ok
    /\ call.v = IntV(1)

-----------------------------------------------------------------------------
(* Properties of the field-name check of WorksheetData construction        *)

\* the field names of the model that are no identifiers
NonIdentifiers == {"", "1x", "a b", "5"}

\* the non-ignored columns of the sheet whose annotation-stripped name is no
\* identifier (a column past the end of the label row has no label)
BadNameCols == {i \in 1..Len(ws.field_names) :
                   /\ i > Len(ws.data_labels) \/ ws.data_labels[i] # "ignore"
                   /\ ws.field_names[i].name \in NonIdentifiers}

\* the field keys of the records generate_json holds
ExportedFieldKeys == UNION {DictKeys(gj.data[r].v) : r \in 1..Len(gj.data)}

-----------------------------------------------------------------------------
(* Properties of the resolution of a reference without field name          *)

\* the values of the field `id` over the records of the JSON check n is
\* checked against
IdValues(n) ==
    {DictGet(TargetObj(n).obj[i].v, "id") :
        i \in {j \in 1..Len(TargetObj(n).obj) : DictHas(TargetObj(n).obj[j].v, "id")}}

\* check n has no field name, and its target JSON exists and is read
OmittedFieldCheck(n) ==
    /\ PendingItem(n).ref_field = ""
    /\ ~NoTargetJson(n)
    /\ TargetObj(n).readable

\* C19, as stated: a processed check whose annotation omits the field name is
\* resolved to the field id of the target sheet: the value set the run holds
\* for it is the set of id values of the target's records, and a scalar value
\* that is one of these ids draws no error
C19_OmittedFieldIsId ==
    RunChecksRan =>
        \A n \in 1..rcf.idx :
            OmittedFieldCheck(n) =>
                /\ DictHas(rcf.cache, <<PendingItem(n).ref_sheet, "id">>)
                /\ DictGet(rcf.cache, <<PendingItem(n).ref_sheet, "id">>).values = IdValues(n)
                /\ (PendingItem(n).kind = "scalar" /\ PendingItem(n).value \in IdValues(n)) =>
                       ErrorsOf(n) = <<>>

-----------------------------------------------------------------------------
(* Properties of the dict conversion                                       *)

\* a dict of the model: int keys 1 and 2
Dict12(v1, v2) == DictV(<<[k |-> IntV(1), v |-> v1], [k |-> IntV(2), v |-> v2]>>)

\* the call converted the text as the dict type and returned the dict
DictCallGave(type_str, toks, result) ==
    (call.op = "convert_dict" /\ call.done /\ call.args = <<type_str, CellText(toks)>>) =>
        call.ok /\ call.v = result

\* Quality is registered with Low = 0 and High = 1
QualityLowHigh ==
    /\ DictHas(registry._enums, "Quality")
    /\ DictGet(registry._enums, "Quality") = <<[k |-> "Low", v |-> 0], [k |-> "High", v |-> 1]>>

\* C20, as stated: the dict conversion converts the value of every key:value
\* line with the value type, whether that is a primitive, a list, a dict or
\* an enum; lines without a colon are skipped and None yields the empty dict
C20_DictValuesAnyType ==
    /\ (call.op = "convert_dict" /\ call.done /\ call.args[2] = NoCell) =>
          call.ok /\ call.v = DictV(<<>>)
    /\ DictCallGave(DictIntString, <<"1", ":", "a", "\n", "2", ":", "b">>,
                    Dict12(StrV("a"), StrV("b")))
    /\ DictCallGave(DictIntString, <<"1", ":", "a", "\n", "x", "\n", "2", ":", "b">>,
                    Dict12(StrV("a"), StrV("b")))
    /\ DictCallGave(DictIntListInt, <<"1", ":", "5", ",", "6", "\n", "2", ":", "6">>,
                    Dict12(ListV(<<IntV(5), IntV(6)>>), ListV(<<IntV(6)>>)))
    /\ QualityLowHigh =>
          DictCallGave(DictIntEnumQuality, <<"1", ":", "Low", "\n", "2", ":", "High">>,
                       Dict12(IntV(0), IntV(1)))
    /\ DictCallGave(DictIntDictIntString, <<"1", ":", "2", ":", "a">>,
                    DictV(<<[k |-> IntV(1),
                             v |-> DictV(<<[k |-> IntV(2), v |-> StrV("a")]>>)]>>))

-----------------------------------------------------------------------------
(* The ReferenceChecker on its own: a queue filled through                 *)
(* add_pending_check, then run_checks                                      *)

\* checks queued through add_pending_check before a run
MaxQueued == 2

\* the check items add_pending_check is given: a reference to B, scalar or
\* list, declared int or string, holding a value of any type
QueuedItems ==
    {[excel_row |-> 7, field_name |-> "target", ref_sheet |-> "B", ref_field |-> "id",
      kind |-> kind, base |-> base, value |-> value] :
        kind \in {"scalar", "list"}, base \in {"int", "string"},
        value \in {IntV(5), IntV(9), StrV("x"), ListV(<<IntV(5)>>), ListV(<<IntV(9)>>)}}

\* add_pending_check(check_item): the item is appended to the queue
AddPendingCheck ==
    /\ ws.state = "ready"
    /\ rcf.pc = "idle"
    /\ Len(checker._pending_ref_checks) < MaxQueued
    /\ \E check_item \in QueuedItems :
          checker' = [checker EXCEPT !._pending_ref_checks = Append(@, check_item)]
    /\ UNCHANGED <<JSON_ID_FIRST, ws, gj, rcf, disk, log, registry, batch, call, assets>>

\* a sheet without reference columns and without rows, and B.json present or not
InitChecker ==
    /\ JSON_ID_FIRST = TRUE
    /\ ws = Sheet(<<Plain("id"), Plain("val")>>, <<"int", "int">>, <<"", "">>,
                  <<NoneV, NoneV>>, <<>>)
    /\ disk \in {EmptyDisk, [EmptyDisk EXCEPT !["client"]["B"] = JsonFile(BOne)]}
    /\ gj = IdleGj
    /\ checker = NewChecker
    /\ rcf = IdleRcf
    /\ log = <<>>
    /\ registry = IdleRegistry
    /\ batch = IdleBatch
    /\ call = IdleCall
    /\ assets = IdleAssets

NextChecker ==
    \/ Construct
    \/ AddPendingCheck
    \/ \E search_dirs \in SearchDirChoices : RunChecksBegin(search_dirs)
    \/ RunChecksItem
    \/ RunChecksEnd

SpecChecker == InitChecker /\ [][NextChecker]_vars

-----------------------------------------------------------------------------
(* Properties of the success line of run_checks                            *)

\* the error lines the finished run logged
RunErrorLines == SelectSeq(rcf.logged, LAMBDA l : l.level = "error")

\* the success lines the finished run logged
RunSuccessLines == SelectSeq(rcf.logged, LAMBDA l : l.kind = "refs_ok")

\* C21, as stated: a finished run over a non-empty queue logged the success
\* line iff it logged no error for any pending check, the errors being the
\* missing reference, the base-type mismatch, the value-type mismatch and the
\* non-list value of a list field
C21_SuccessIffNoErrorLine ==
    (rcf.pc = "done" /\ RunChecksRan /\ checker._pending_ref_checks # <<>>) =>
        (RunSuccessLines # <<>> <=> RunErrorLines = <<>>)

-----------------------------------------------------------------------------
(* Properties of repeated run_checks calls                                 *)

\* the step is the entry of a run_checks call
RunChecksCalled ==
    /\ rcf.pc \in {"idle", "done"}
    /\ rcf'.pc \in {"items", "done"}
    /\ rcf'.search_dirs # <<>>

\* C22: a run_checks call on a queue already checked, or on an empty queue,
\* logs nothing and changes nothing of the sheet, the checker or the files;
\* a run_checks call on a non-empty queue not yet checked, as the first call
\* after a generate_json is, runs the queue, and the run ends with every
\* pending check processed and the done flag set; generate_json resets the
\* done flag.
C22_RunChecksOncePerCycle ==
    /\ [][RunChecksCalled =>
             IF checker._reference_checks_done \/ checker._pending_ref_checks = <<>>
             THEN /\ rcf'.skipped
                  /\ rcf'.logged = <<>>
                  /\ UNCHANGED <<JSON_ID_FIRST, ws, gj, checker, disk, log>>
             ELSE rcf'.pc = "items" /\ ~rcf'.skipped]_vars
    /\ [](rcf.pc = "done" /\ ~rcf.skipped =>
             /\ rcf.idx = Len(checker._pending_ref_checks)
             /\ checker._reference_checks_done)
    /\ [](gj.pc = "rows" => ~checker._reference_checks_done)

\* a second run_checks call on a checked queue with a missing reference
\* returned at once: the log still holds the one error of the first call
C22_Witness ==
    /\ rcf.pc = "done" /\ rcf.skipped
    /\ checker._reference_checks_done
    /\ Len(checker._pending_ref_checks) = 1
    /\ Len(SelectSeq(log, LAMBDA l : l.kind = "missing_ref")) = 1
    /\ gj.pc = "done"


-----------------------------------------------------------------------------
(* Properties of the key pre-scans of the constructor *)

\* the data rows whose key1 or key2 cell is no integer or lies outside
\* 0..MAX_KEY2-1
BadKeyRows ==
    {i \in 1..Len(ws.row_data) :
        \E n \in 1..2 :
            LET k == PyInt(ws.row_data[i][n])
            IN ~k.ok \/ k.v < 0 \/ k.v >= MAX_KEY2}

\* C23: a constructed sheet under the composite strategy has no data row
\* whose key1 or key2 is no integer or outside 0 <= k < 46340: with such a
\* row the constructor fails, and a failure of the key check names the Excel
\* row (data index + 7) of such a row
C23_PreScanRejectsBadKeys ==
    (ws.state # "new" /\ ws.composite_keys /\ BadKeyRows # {}) =>
        /\ ws.state = "failed"
        /\ ws.error.type = "RuntimeError" =>
               ws.error.row_a - FIRST_DATA_ROW + 1 \in BadKeyRows


\* the duplicates the error of a failed key pre-scan reports, as
\* (value, rows) pairs: the lines of the duplicate message under generated
\* keys, the one (combined, first row, this row) of DuplicatePrimaryKeyError
\* under composite keys
ReportedEnumDuplicates ==
    LET dup == DuplicateEnumKeyLines(ws.row_data)
    IN {<<dup[i].k, {dup[i].v[j] : j \in 1..Len(dup[i].v)}>> : i \in 1..Len(dup)}
ReportedCompositeDuplicates == {<<ws.error.key, {ws.error.row_a, ws.error.row_b}>>}
\* every value held by two or more data rows, with all the Excel rows
\* holding it
RowsHolding(KeyOf(_), v) ==
    {FIRST_DATA_ROW + i - 1 : i \in {j \in 1..Len(ws.row_data) : KeyOf(j) = v}}
AllDuplicates(KeyOf(_)) ==
    {<<KeyOf(i), RowsHolding(KeyOf, KeyOf(i))>> :
        i \in {j \in 1..Len(ws.row_data) : Cardinality(RowsHolding(KeyOf, KeyOf(j))) > 1}}
EnumKeyOfRow(i) == ws.row_data[i][1].s
CombinedKeyOfRow(i) == KeyPair(i)[1] * MULTIPLIER + KeyPair(i)[2]
\* the constructor failed on a duplicate found by a key pre-scan
EnumPreScanFoundDuplicates ==
    /\ ws.state = "failed" /\ ws.need_generate_keys
    /\ ws.error = InvalidEnumNameError(0 - 1)
CompositePreScanFoundDuplicates ==
    /\ ws.state = "failed" /\ ws.composite_keys
    /\ ws.error.type = "DuplicatePrimaryKeyError"

\* C24: the error of a key pre-scan that found duplicates, of generated-key
\* names or of combined composite keys, lists every duplicated value with
\* all the rows holding it
C24_AllDuplicatesListed ==
    /\ EnumPreScanFoundDuplicates => ReportedEnumDuplicates = AllDuplicates(EnumKeyOfRow)
    /\ CompositePreScanFoundDuplicates =>
           ReportedCompositeDuplicates = AllDuplicates(CombinedKeyOfRow)

\* the half of C24 on generated-key names alone (it holds)
C24_EnumDuplicatesListed ==
    EnumPreScanFoundDuplicates => ReportedEnumDuplicates = AllDuplicates(EnumKeyOfRow)


-----------------------------------------------------------------------------
(* The cached asset validator (validation/asset_validator.py)              *)

\* bool(x) of the values a configuration holds under "strict"
bool(v) ==
    CASE v.t = "none" -> FALSE
      [] v.t \in {"int", "bool"} -> v.n # 0
      [] v.t = "string" -> v.s # ""
      [] OTHER -> v.l # <<>>

\* os.path.abspath(path) in the working directory cwd
abspath(cwd, path) == IF path # <<>> /\ path[1] = "/" THEN path ELSE cwd \o path

\* os.path.isfile(path) in the working directory cwd
isfile(a, path) ==
    /\ abspath(a.cwd, path) \in CollectorFiles
    /\ a.fs[abspath(a.cwd, path)].exists

\* _infer_project_root: the part of the absolute path before "Assets"
_infer_project_root(cwd, collector_setting) ==
    LET parts == abspath(cwd, collector_setting)
        at == {i \in 1..Len(parts) : parts[i] = "Assets"}
        idx == CHOOSE i \in at : \A j \in at : i <= j
    IN IF at = {} THEN <<>> ELSE SubSeq(parts, 1, idx - 1)

RECURSIVE CollectPaths(_, _, _)
\* the loop of _parse_collect_paths over the CollectPath values of the
\* lines: a trailing slash is dropped, a path already listed is skipped
CollectPaths(lines, idx, paths) ==
    IF idx > Len(lines) THEN paths
    ELSE LET m == lines[idx]
             path == IF m # <<>> /\ m[Len(m)] = "/" THEN SubSeq(m, 1, Len(m) - 1) ELSE m
         IN CollectPaths(lines, idx + 1,
                         IF \E i \in 1..Len(paths) : paths[i] = path
                         THEN paths ELSE Append(paths, path))

\* _parse_collect_paths: [] when the file cannot be read
_parse_collect_paths(a, collector_setting) ==
    IF ~isfile(a, collector_setting) THEN <<>>
    ELSE CollectPaths(a.fs[abspath(a.cwd, collector_setting)].lines, 1, <<>>)

\* the file names os.walk finds under a directory: /p/Assets/Art is the one
\* directory of the model
WalkFiles(abs_root) ==
    IF abs_root = <<"/", "p", "Assets", "Art">>
    THEN {<<"H", "e", "r", "o", ".", "p", "n", "g">>,
          <<"H", "e", "r", "o", ".", "p", "n", "g", ".", "m", "e", "t", "a">>}
    ELSE {}

\* AssetValidator(collector_setting, strict); opened is the file
\* _parse_collect_paths read
AssetValidator(a, collector_setting, strict) ==
    LET project_root == _infer_project_root(a.cwd, collector_setting)
        roots == _parse_collect_paths(a, collector_setting)
    IN [built |-> TRUE, collector_setting |-> collector_setting, strict |-> strict,
        project_root |-> project_root, roots |-> roots,
        _index |-> IF project_root # <<>> /\ roots # <<>>
                   THEN _build_index(UNION {WalkFiles(project_root \o roots[i]) :
                                               i \in 1..Len(roots)})
                   ELSE {},
        opened |-> abspath(a.cwd, collector_setting)]

Key(path, strict) == [set |-> TRUE, path |-> path, strict |-> strict]

\* a cache test on the path alone
cache_hit_path_only(a, key) ==
    a._ASSET_VALIDATOR # NoValidator /\ a._ASSET_VALIDATOR_KEY.path = key.path
\* `_ASSET_VALIDATOR is not None and _ASSET_VALIDATOR_KEY == key`
cache_hit(a, key) == a._ASSET_VALIDATOR # NoValidator /\ a._ASSET_VALIDATOR_KEY = key

\* the globals and the result after get_asset_validator()
get_asset_validator(a) ==
    LET cfg == a.cfg
        collector == cfg.collector_setting
        strict == bool(cfg.strict)
        key == Key(abspath(a.cwd, collector), strict)
        validator == AssetValidator(a, collector, strict)
        cleared(rebuilt) == [a EXCEPT !._ASSET_VALIDATOR = NoValidator,
                                      !._ASSET_VALIDATOR_KEY = NoKey,
                                      !.called = TRUE, !.returned = NoValidator,
                                      !.rebuilt = rebuilt]
    IN IF ~cfg.present THEN cleared(FALSE)
       ELSE IF collector = <<>> \/ ~isfile(a, collector) THEN cleared(FALSE)
       ELSE IF cache_hit(a, key)
       THEN [a EXCEPT !.called = TRUE, !.returned = a._ASSET_VALIDATOR, !.rebuilt = FALSE]
       ELSE IF validator.roots = <<>> THEN cleared(TRUE)
       ELSE [a EXCEPT !._ASSET_VALIDATOR = validator, !._ASSET_VALIDATOR_KEY = key,
                      !.called = TRUE, !.returned = validator, !.rebuilt = TRUE]

assetOther == <<JSON_ID_FIRST, ws, gj, checker, rcf, disk, log, registry, batch, call>>

GetAssetValidator ==
    /\ assets' = get_asset_validator(assets)
    /\ UNCHANGED assetOther

\* the configurations _load_sheet_config_for_assets may find: none or an
\* empty one, one without a collector setting, or one naming a collector
\* file by a relative or an absolute path, with some value under "strict"
CollectorSettings ==
    {<<>>, <<"Assets", "c.asset">>, <<"/", "p", "Assets", "c.asset">>,
     <<"/", "q", "Assets", "c.asset">>}
StrictSettings == {NoneV, BoolV(TRUE), BoolV(FALSE), StrV("false")}
Cfgs ==
    {NoCfg} \cup {[present |-> TRUE, collector_setting |-> c, strict |-> x] :
                     c \in CollectorSettings, x \in StrictSettings}
\* the contents of a collector file, as the CollectPath values of its lines
CollectorLines ==
    {<<>>, <<<<"Assets", "Art", "/">>, <<"Assets", "Art">>>>, <<<<"Assets", "UI">>>>}

\* the process around the cache between two calls: the configuration is
\* edited, the working directory changes, a collector file is written or
\* removed
EditConfiguration ==
    /\ \E cfg \in Cfgs : assets' = [assets EXCEPT !.cfg = cfg]
    /\ UNCHANGED assetOther
ChangeDirectory ==
    /\ \E cwd \in WorkDirs : assets' = [assets EXCEPT !.cwd = cwd]
    /\ UNCHANGED assetOther
WriteCollectorFile ==
    /\ \E f \in CollectorFiles, lines \in CollectorLines :
          assets' = [assets EXCEPT !.fs[f] = [exists |-> TRUE, lines |-> lines]]
    /\ UNCHANGED assetOther
RemoveCollectorFile ==
    /\ \E f \in CollectorFiles : assets' = [assets EXCEPT !.fs[f] = NoCollectorFile]
    /\ UNCHANGED assetOther

InitAssets ==
    /\ JSON_ID_FIRST = FALSE
    /\ ws = IdleSheet
    /\ gj = IdleGj
    /\ checker = NewChecker
    /\ rcf = IdleRcf
    /\ disk = EmptyDisk
    /\ log = <<>>
    /\ registry = IdleRegistry
    /\ batch = IdleBatch
    /\ call = IdleCall
    /\ assets = IdleAssets

NextAssets ==
    \/ GetAssetValidator
    \/ EditConfiguration
    \/ ChangeDirectory
    \/ WriteCollectorFile
    \/ RemoveCollectorFile

SpecAssets == InitAssets /\ [][NextAssets]_vars


-----------------------------------------------------------------------------
(* Properties of the cached asset validator *)

\* a step of get_asset_validator: the globals or the result change, the
\* process around them does not
AssetValidatorCalled ==
    /\ assets'.called
    /\ assets'.cfg = assets.cfg /\ assets'.cwd = assets.cwd /\ assets'.fs = assets.fs
\* the configuration names a collector file that exists
CollectorFound ==
    /\ assets.cfg.present
    /\ assets.cfg.collector_setting # <<>>
    /\ isfile(assets, assets.cfg.collector_setting)
\* (absolute collector path, strict flag) of the current configuration
CurrentKey == Key(abspath(assets.cwd, assets.cfg.collector_setting), bool(assets.cfg.strict))
\* the call returned the validator that was cached before it, and did not
\* run the constructor
ReturnedCached ==
    /\ assets._ASSET_VALIDATOR # NoValidator
    /\ assets'.returned = assets._ASSET_VALIDATOR
    /\ ~assets'.rebuilt
    /\ assets'._ASSET_VALIDATOR = assets._ASSET_VALIDATOR
    /\ assets'._ASSET_VALIDATOR_KEY = assets._ASSET_VALIDATOR_KEY
\* the call cleared the cache and returned None
ClearedCache ==
    /\ assets'._ASSET_VALIDATOR = NoValidator
    /\ assets'._ASSET_VALIDATOR_KEY = NoKey
    /\ assets'.returned = NoValidator

\* C25: with a configuration whose collector file exists, get_asset_validator
\* returns the cached validator without running the constructor iff the
\* current (absolute collector path, strict flag) equals the cached key;
\* without a configuration or without the collector file it clears the cache
\* and returns None; and at all times the cached validator and key are both
\* absent, or the validator was built from the file at the key's path with
\* the key's strict flag
C25_CacheKeyedByPathAndStrict ==
    /\ [][AssetValidatorCalled =>
            /\ CollectorFound =>
                   (ReturnedCached <=> assets._ASSET_VALIDATOR_KEY = CurrentKey)
            /\ ~CollectorFound => ClearedCache]_vars
    /\ [](\/ /\ assets._ASSET_VALIDATOR = NoValidator
             /\ assets._ASSET_VALIDATOR_KEY = NoKey
          \/ /\ assets._ASSET_VALIDATOR.built
             /\ assets._ASSET_VALIDATOR_KEY.set
             /\ assets._ASSET_VALIDATOR.opened = assets._ASSET_VALIDATOR_KEY.path
             /\ assets._ASSET_VALIDATOR.strict = assets._ASSET_VALIDATOR_KEY.strict)

\* C25, its case: a call under a configuration that names the collector
\* file by a relative path and sets strict to a non-empty string returned
\* the validator cached under the absolute path and strict = TRUE, without
\* running the constructor
C25_Witness ==
    /\ assets.called /\ ~assets.rebuilt
    /\ assets.returned # NoValidator
    /\ assets.returned = assets._ASSET_VALIDATOR
    /\ assets.cfg.collector_setting = <<"Assets", "c.asset">>
    /\ assets.cfg.strict = StrV("false")
    /\ assets._ASSET_VALIDATOR_KEY = Key(<<"/", "q", "Assets", "c.asset">>, TRUE)
    /\ assets._ASSET_VALIDATOR.collector_setting = <<"/", "q", "Assets", "c.asset">>


-----------------------------------------------------------------------------
(* Properties of the reference queue filled by generate_json *)

\* the non-ignored reference columns of the sheet whose declared kind is
\* dict, and the others
DictRefCols ==
    {i \in ws._ref_specs : parse_type_annotation(ws.data_types[i]).kind = "dict"}
CheckedRefCols == ws._ref_specs \ DictRefCols
\* the skip warnings logged for column i
SkipWarnings(i) ==
    SelectSeq(log, LAMBDA l : l.kind = "ref_dict_skipped" /\ l.field = _actual_field_name(ws, i))

\* C26: no pending reference check is ever queued for a reference column
\* declared as a dict, and the log holds at most one skip warning per such
\* column, over all rows and all generate_json calls on the sheet
C26_DictRefSkippedWarnedOnce ==
    ws.state = "ready" =>
        \A i \in DictRefCols :
            /\ \A n \in 1..Len(checker._pending_ref_checks) :
                   /\ PendingItem(n).field_name # _actual_field_name(ws, i)
                   /\ PendingItem(n).kind # "dict"
            /\ Len(SkipWarnings(i)) <= 1
            /\ Len(SkipWarnings(i)) = 1 <=> i \in checker._ref_dict_warned_cols

\* C26, its case: a sheet of two rows and two dict reference columns was
\* exported to both folders; the queue is empty and each column was warned
\* of once, at the first row of the first export
C26_Witness ==
    /\ ws.state = "ready" /\ gj.pc = "done"
    /\ Len(ws.row_data) = 2
    /\ Cardinality(DictRefCols) = 2
    /\ disk["client"][ws.name].exists /\ disk["project"][ws.name].exists
    /\ checker._pending_ref_checks = <<>>
    /\ \A i \in DictRefCols : Len(SkipWarnings(i)) = 1 /\ SkipWarnings(i)[1].row = FIRST_DATA_ROW


-----------------------------------------------------------------------------
(* Properties of validate_type_annotation *)

\* the trimmed text of the type string of the call
TypeText == strip(call.args[1].toks)
\* the opening minus the closing brackets among the first i characters
Nesting(i) ==
    Cardinality({k \in 1..i : TypeText[k] = "("}) - Cardinality({k \in 1..i : TypeText[k] = ")"})
\* the rules, in the order of the claim
RuleNonEmpty == call.args[1].str /\ TypeText # <<>>
RuleBracketCount == Nesting(Len(TypeText)) = 0
RuleBracketOrder == \A i \in 1..Len(TypeText) : Nesting(i) >= 0
RuleDepth == \A i \in 1..Len(TypeText) : Nesting(i) <= 3
RuleCommas ==
    /\ TypeText[1] # "," /\ TypeText[Len(TypeText)] # ","
    /\ \A i \in 1..(Len(TypeText) - 1) : ~(TypeText[i] = "," /\ TypeText[i + 1] = ",")
FirstFailingRule ==
    IF ~RuleNonEmpty THEN "empty"
    ELSE IF ~RuleBracketCount THEN "bracket count"
    ELSE IF ~RuleBracketOrder THEN "bracket order"
    ELSE IF ~RuleDepth THEN "depth"
    ELSE IF ~RuleCommas THEN "commas"
    ELSE "none"
\* the rule a returned message reports
RuleOfMessage(msg) ==
    CASE msg \in {"empty or not a string", "empty"} -> "empty"
      [] msg = "bracket mismatch" -> "bracket count"
      [] msg = "bracket order" -> "bracket order"
      [] msg = "too deep" -> "depth"
      [] msg \in {"comma at an end", "doubled comma"} -> "commas"
      [] OTHER -> "none"
ValidateTypeReturned == call.op = "validate_type_annotation" /\ call.done

\* C27: validate_type_annotation accepts exactly the non-empty (trimmed)
\* strings with balanced, well-ordered brackets nested at most 3 deep and
\* with no comma at an end and no doubled comma, and the message of a
\* rejection is that of the first failing rule in the order empty, bracket
\* count, bracket order, depth, commas
C27_AcceptsIffAllRules ==
    ValidateTypeReturned =>
        /\ call.v.l[1] = BoolV(FirstFailingRule = "none")
        /\ RuleOfMessage(call.v.l[2].s) = FirstFailingRule

\* C27, its case: the text of four nested brackets with blanks around it
\* was rejected for its depth
C27_Witness ==
    /\ ValidateTypeReturned
    /\ call.args[1].toks = <<" ", "(", "(", "(", "(", ")", ")", ")", ")", " ">>
    /\ call.v = Verdict(FALSE, "too deep")


\* the checked reference columns in ascending order
RECURSIVE SortedCols(_)
SortedCols(cols) ==
    IF cols = {} THEN <<>>
    ELSE LET least == CHOOSE i \in cols : \A j \in cols : i <= j
         IN <<least>> \o SortedCols(cols \ {least})
\* the check that the export of data row r queues for reference column c
ExpectedCheck(r, c) ==
    [excel_row |-> FIRST_DATA_ROW + r - 1,
     field_name |-> _actual_field_name(ws, c),
     ref_sheet |-> parse_ref_prefix(ws.field_names[c]).sheet,
     ref_field |-> parse_ref_prefix(ws.field_names[c]).field,
     kind |-> parse_type_annotation(ws.data_types[c]).kind,
     base |-> parse_type_annotation(ws.data_types[c]).base,
     value |-> DictGet(gj.data[r].v, _actual_field_name(ws, c))]
\* the checks of the first n data rows, row by row and column by column
RECURSIVE ExpectedQueue(_)
ExpectedQueue(n) ==
    IF n = 0 THEN <<>>
    ELSE ExpectedQueue(n - 1)
         \o [k \in 1..Cardinality(CheckedRefCols) |-> ExpectedCheck(n, SortedCols(CheckedRefCols)[k])]

\* C28: while and after generate_json runs, whatever calls came before, the
\* pending queue holds exactly the checks of the rows the running or last
\* call has exported, one per row and per reference column that is no dict,
\* in row then column order; before the first call it is empty
C28_QueueOfLastCallOnly ==
    ws.state = "ready" =>
        /\ gj.pc = "idle" => checker._pending_ref_checks = <<>>
        /\ gj.pc \in {"rows", "done"} =>
               /\ Len(gj.data) = gj.row_idx
               /\ checker._pending_ref_checks = ExpectedQueue(gj.row_idx)
        /\ gj.pc = "done" => gj.row_idx = Len(ws.row_data)

\* C28, its case: a sheet of two rows with two checked reference columns
\* and a dict reference column was exported to the client folder and then to
\* the project folder; the queue holds four checks
C28_Witness ==
    /\ ws.state = "ready" /\ gj.pc = "done"
    /\ gj.output_folder = "project"
    /\ disk["client"][ws.name].exists /\ disk["project"][ws.name].exists
    /\ Len(ws.row_data) = 2
    /\ Cardinality(CheckedRefCols) = 2 /\ DictRefCols # {}
    /\ Len(checker._pending_ref_checks) = 4


-----------------------------------------------------------------------------
(* Properties of the composite key range *)

\* the data rows whose key parts pass the range check of generate_json
RowsInRange == {i \in 1..Len(ws.row_data) : PairInRange(i)}

\* C29: every pair of key parts in 0..46339 combines to a key in
\* 0..2^31-1 (checked on the sample parts, the ends of the range among
\* them); under the composite strategy every exported key and id lies in
\* that range, and generate_json does not raise the overflow error at a row
\* whose parts are in range
C29_InRangePairFitsInt32 ==
    /\ \A k1, k2 \in InRangeSamples :
          0 <= k1 * 46340 + k2 /\ k1 * 46340 + k2 <= 2147483647
    /\ ws.composite_keys =>
          /\ \A n \in 1..Len(gj.data) :
                /\ 0 <= gj.data[n].k /\ gj.data[n].k <= 2147483647
                /\ DictGet(gj.data[n].v, "id").t = "int"
                /\ 0 <= DictGet(gj.data[n].v, "id").n
                /\ DictGet(gj.data[n].v, "id").n <= 2147483647
          /\ (gj.pc = "raised" /\ gj.row_idx + 1 \in RowsInRange) =>
                 gj.error.type # "CompositeKeyOverflowError"
          /\ gj.pc \in {"rows", "done"} => \A i \in 1..gj.row_idx : i \in RowsInRange

\* C29, its case: a composite sheet with the rows (0, 0) and (46339, 46339)
\* was exported under the keys 0 and 2147395599
C29_Witness ==
    /\ ws.composite_keys /\ gj.pc = "done"
    /\ Len(ws.row_data) = 2
    /\ KeyPair(1) = <<0, 0>> /\ KeyPair(2) = <<46339, 46339>>
    /\ DictKeys(gj.data) = {0, 2147395599}


-----------------------------------------------------------------------------
(* Properties of the enum registry in a batch run *)

\* s in reverse order
Reverse(s) == [i \in 1..Len(s) |-> s[Len(s) + 1 - i]]
\* the enum names the files of the run can define, and the item names
BatchEnumNames ==
    {EnumKeysName(batch.files[n].title) : n \in 1..Len(batch.files)}
        \cup UNION {{batch.files[n].more_sheets[k].name :
                        k \in 1..Len(batch.files[n].more_sheets)} : n \in 1..Len(batch.files)}
BatchItemNames == {"Sword", "Bow", "head", "low", "1x", "Axe", "Low"}
\* what an enum column resolves an item to under a registry: the value, or
\* -1 when get_enum_value raises
Resolved(r, enum_name, item_name) ==
    LET got == get_enum_value(r, enum_name, item_name)
    IN IF got.raised THEN 0 - 1 ELSE got.value
\* the run is converting rows, or has converted some
RowsPhase == batch.pc \in {"data", "refs", "finished", "exited"}
\* the first loop run over the same files in reverse order
ReverseRun == CollectAll(Reverse(batch.files), IdleRegistry, batch.enum_output_folder)

\* C30, the part on the order of the steps: while rows are converted the
\* registry is the one the first loop built, from an empty registry, over all
\* the files of the run; it holds no enum of an earlier run
C30_ResetAndCollectBeforeRows ==
    RowsPhase =>
        /\ registry._enums = CollectAll(batch.files, IdleRegistry,
                                        batch.enum_output_folder).registry._enums
        /\ DictKeys(registry._enums) \subseteq BatchEnumNames
        /\ ~DictHas(registry._enums, "Old")
        /\ \A name \in DictKeys(registry._enums) : Resolved(registry, name, "Axe") = 0 - 1

\* C30: while rows are converted the registry is the one built from an empty
\* registry over all the files, it holds no enum of an earlier run, and it
\* resolves every item of every enum as the run over the same files in
\* another order does
C30_EnumsFixedBeforeRows ==
    RowsPhase =>
        /\ registry._enums = CollectAll(batch.files, IdleRegistry,
                                        batch.enum_output_folder).registry._enums
        /\ DictKeys(registry._enums) \subseteq BatchEnumNames
        /\ ~ReverseRun.raised =>
               \A name \in BatchEnumNames, item \in BatchItemNames :
                   Resolved(registry, name, item) = Resolved(ReverseRun.registry, name, item)

\* the case of C30_ResetAndCollectBeforeRows: a run that started with the
\* registry of an earlier run converts rows with the enum of Item.xlsx alone
C30_ResetWitness ==
    /\ batch.pc = "data" /\ batch.done # <<>>
    /\ DictKeys(registry._enums) = {"ItemKeys"}
    /\ Resolved(registry, "ItemKeys", "Sword") = 0

=============================================================================
